---------------------------- MODULE Spec2Model ----------------------------
(***************************************************************************)
(* A model of the PMX reader (src/src/reader.rs): Reader::new with its     *)
(* header checks and the structural scan Indices::new, the primitive       *)
(* cursors Seeker and DataCursor, and the lazy section decoders built on   *)
(* DataIterator.                                                           *)
(*                                                                         *)
(* Offsets are zero-based byte offsets as in the code; a buffer is a       *)
(* sequence of bytes 0..255, so the byte at offset o of d is d[o + 1].     *)
(* An f32 is represented by its bit pattern read as a little-endian        *)
(* two's-complement 32-bit integer (f32::from_le_bytes is a bit cast).     *)
(***************************************************************************)
EXTENDS Integers, Sequences, FiniteSets, TLC

VARIABLES
    data,       \* Reader.data: the whole input, read once by read_to_end
    pc,         \* where Reader::new stands: "new", a section name, "ready", "failed"
    remain,     \* iterations left in the current scanner loop; -1 before the count is read
    header,     \* Header, set once the 17 header bytes have passed every check
    seeker,     \* the scanner's cursor (Seeker over Cursor<&Vec<u8>>) and what it has read
    indices,    \* Indices: the offsets recorded so far
    result,     \* what Reader::new returned: kind "none" while it runs
    iters,      \* what each caller holds: nothing, a DataIterator, or a returned String
    panic,      \* "" or the panic that unwound a decoder
    cur,        \* a DataCursor on which the primitive reads are exercised
    ret         \* the value the last primitive read on cur returned

vars == <<data, pc, remain, header, seeker, indices, result, iters, panic, cur, ret>>

--------------------------------------------------------------------------
(* Bytes and little-endian integers                                        *)

Byte(d, off) == d[off + 1]


\* u16::from_le_bytes
le_u16(d, off) == Byte(d, off) + 256 * Byte(d, off + 1)

\* u32::from_le_bytes
le_u32(d, off) == le_u16(d, off) + 65536 * le_u16(d, off + 2)

\* The two's-complement reading of the w-bit pattern u
signed(w, u) == IF u >= 2 ^ (w - 1) THEN u - 2 ^ w ELSE u

\* i8::from_le_bytes
le_i8(d, off) == signed(8, Byte(d, off))

\* i16::from_le_bytes
le_i16(d, off) == signed(16, le_u16(d, off))

\* i32::from_le_bytes
le_i32(d, off) == le_u16(d, off) + 65536 * le_i16(d, off + 2)

\* f32::from_le_bytes: the bit pattern, kept as the i32 with the same bits
le_f32(d, off) == le_i32(d, off)

\* `x as usize` on a 64-bit target, as four 16-bit limbs, least significant
\* first: an unsigned source zero-extends, a negative i32 sign-extends.
as_usize(v) ==
    <<v % 65536, (v \div 65536) % 65536,
      IF v < 0 THEN 65535 ELSE 0, IF v < 0 THEN 65535 ELSE 0>>

--------------------------------------------------------------------------
(* Error and Header                                                        *)

NoError == [kind |-> "", msg |-> ""]

\* Error::invalid_header
invalid_header(msg) == [kind |-> "InvalidHeader", msg |-> msg]

\* Error::invalid_data
invalid_data(msg) == [kind |-> "InvalidData", msg |-> msg]

\* Error::UnsupportedVersion
UnsupportedVersion == [kind |-> "UnsupportedVersion", msg |-> ""]

\* From<std::io::Error>: read_exact's UnexpectedEof
IoError == [kind |-> "Io", msg |-> "failed to fill whole buffer"]

NoHeader ==
    [encoding |-> 0, extended_uv |-> 0, vertex_index_size |-> 0,
     texture_index_size |-> 0, material_index_size |-> 0, bone_index_size |-> 0,
     morph_index_size |-> 0, rigid_index_size |-> 0]

\* The magic number b"PMX "
Magic == <<80, 77, 88, 32>>

\* The bits of the f32 2.0, the only f32 equal to 2.0
VersionBits == 1073741824

\* The header length the reader accepts
DataLen == 8

\* The largest extended-UV count the reader accepts
MaxExtendedUv == 4

IndexSizes == {1, 2, 4}

--------------------------------------------------------------------------
(* Seeker: the scanner's cursor.  A Seeker value carries the cursor        *)
(* position, the pending error (the `?` operator: once err is set every    *)
(* later operation is skipped), the value of the last read, `hi` = one     *)
(* past the highest offset read_exact has copied, and `tags` = the tag     *)
(* bytes checked so far, each with the offset it was read at; `bad` = the   *)
(* first tag byte read and outside its legal range, with its offset and    *)
(* its field category (<<>> while there is none).  Every                   *)
(* operation takes the seeker as its last argument, so a sequence of       *)
(* statements reads from the innermost application outwards.               *)

Seeker_new(pos) ==
    [pos |-> pos, err |-> NoError, val |-> 0, hi |-> pos, tags |-> {}, bad |-> <<>>]

Failed(s) == s.err.kind # ""

Max(a, b) == IF a >= b THEN a ELSE b

\* Cursor::read_exact of n bytes, returning v
read_exact(d, n, v, s) ==
    IF s.err.kind # "" THEN s
    ELSE IF s.pos + n > Len(d) THEN [s EXCEPT !.err = IoError]
    ELSE [s EXCEPT !.pos = s.pos + n, !.val = v, !.hi = Max(s.hi, s.pos + n)]

\* Seeker::seek_bin: Cursor::seek(SeekFrom::Current(len)) moves the position
\* and succeeds wherever it lands, also beyond the end of the buffer.
seek_bin(d, len, s) ==
    IF s.err.kind # "" THEN s ELSE [s EXCEPT !.pos = s.pos + len, !.val = s.pos]

\* Seeker::read_u8
Seeker_read_u8(d, s) ==
    IF s.err.kind # "" THEN s
    ELSE read_exact(d, 1, IF s.pos + 1 <= Len(d) THEN Byte(d, s.pos) ELSE 0, s)

\* Seeker::read_u16
Seeker_read_u16(d, s) ==
    IF s.err.kind # "" THEN s
    ELSE read_exact(d, 2, IF s.pos + 2 <= Len(d) THEN le_u16(d, s.pos) ELSE 0, s)

\* Seeker::read_u32
Seeker_read_u32(d, s) ==
    IF s.err.kind # "" THEN s
    ELSE read_exact(d, 4, IF s.pos + 4 <= Len(d) THEN le_u32(d, s.pos) ELSE 0, s)

\* Seeker::seek_string: the 4-byte length is read, the payload is skipped,
\* and the position of the length is returned
seek_string(d, s) ==
    LET payload(l) == seek_bin(d, l.val, l)
        first(e) == IF Failed(e) THEN e ELSE [e EXCEPT !.val = s.pos]
    IN IF s.err.kind # "" THEN s ELSE first(payload(Seeker_read_u32(d, s)))

\* `return Err(Error::invalid_data(msg))`
Reject(msg, s) == [s EXCEPT !.err = invalid_data(msg)]

\* The tag byte just read into t is outside `allowed`: the first such byte
\* of the scan is kept in `bad`
Noted(allowed, category, t) ==
    IF Failed(t) \/ t.val \in allowed \/ t.bad # <<>> THEN t
    ELSE [t EXCEPT !.bad = <<t.pos - 1, category>>]

\* The tag byte at offset off found in range
Checked(off, category, s) == [s EXCEPT !.tags = @ \cup {<<off, category>>}]

\* flags & mask != 0, for a one-bit mask
Bit(flags, mask) == (flags \div mask) % 2 = 1

--------------------------------------------------------------------------
(* Indices::new, one loop iteration per operator.  Each takes the buffer   *)
(* d, the header h and the seeker s at the start of a record and returns   *)
(* the seeker after the record (or with err set).                          *)

\* The tag test that lets every value through
Check_any(allowed, category, t) ==
    IF t.err.kind # "" THEN t
    ELSE Checked(t.pos - 1, category, Noted(allowed, category, t))

\* `if !(tag in allowed) { return Err(invalid_data(category)) }` on the tag
\* byte just read into t
Check(allowed, category, t) ==
    IF t.err.kind # "" THEN t
    ELSE IF t.val \in allowed THEN Checked(t.pos - 1, category, t)
    ELSE Reject(category, Noted(allowed, category, t))

\* lines 109-124: `match seeker.read_u8()?` on the weight type read into t
scan_weight(d, h, t) ==
    IF Failed(t) THEN t
    ELSE CASE t.val = 0 ->
                seek_bin(d, h.bone_index_size,
                         Checked(t.pos - 1, "vertex weight type", t))
           [] t.val = 1 ->
                seek_bin(d, h.bone_index_size * 2 + 4,
                         Checked(t.pos - 1, "vertex weight type", t))
           [] t.val = 2 ->
                seek_bin(d, h.bone_index_size * 4 + 4 * 4,
                         Checked(t.pos - 1, "vertex weight type", t))
           [] t.val = 3 ->
                seek_bin(d, h.bone_index_size * 2 + 4 + 4 * 3 * 3,
                         Checked(t.pos - 1, "vertex weight type", t))
           [] OTHER -> Reject("vertex weight type", Noted(0..3, "vertex weight type", t))

\* lines 105-126
scan_vertex(d, h, s) ==
    seek_bin(d, 4,
    scan_weight(d, h, Seeker_read_u8(d,
    seek_bin(d, 4 * 4 * h.extended_uv,
    seek_bin(d, 4 * 2,
    seek_bin(d, 4 * 3,
    seek_bin(d, 4 * 3, s)))))))

\* The face scan without the test of the count against 3
scan_face_indices_any(d, h, n) ==
    IF Failed(n) THEN n
    ELSE seek_bin(d, h.vertex_index_size * n.val, n)

\* lines 129-132: the face count read into n
scan_face_indices(d, h, n) ==
    IF Failed(n) THEN n
    ELSE IF n.val % 3 # 0 THEN Reject("faces", n)
    ELSE seek_bin(d, h.vertex_index_size * n.val, n)

\* lines 128-132: the whole face section, after its offset is recorded
scan_faces(d, h, s) == scan_face_indices(d, h, Seeker_read_u32(d, s))

\* lines 135-137
scan_texture(d, h, s) == seek_string(d, s)

\* lines 152-156: `match seeker.read_u8()?` on the toon flag read into t
scan_toon(d, h, t) ==
    IF Failed(t) THEN t
    ELSE CASE t.val = 0 ->
                seek_bin(d, h.texture_index_size,
                         Checked(t.pos - 1, "material toon flag", t))
           [] t.val = 1 ->
                seek_bin(d, 1, Checked(t.pos - 1, "material toon flag", t))
           [] OTHER -> Reject("material toon flag", Noted(0..1, "material toon flag", t))

\* lines 140-159
scan_material(d, h, s) ==
    seek_bin(d, 4,
    seek_string(d,
    scan_toon(d, h, Seeker_read_u8(d,
    Check(0..3, "material sphere mode", Seeker_read_u8(d,
    seek_bin(d, 16 + 12 + 4 + 12 + 1 + 16 + 4 + h.texture_index_size * 2,
    seek_string(d,
    seek_string(d, s)))))))))

\* lines 189-192: the angle-limit flag read into a
scan_angle_limit(d, a) ==
    IF ~Failed(a) /\ a.val = 1 THEN seek_bin(d, 12 + 12, a) ELSE a

RECURSIVE scan_ik_links(_, _, _, _)
\* lines 187-193: the n IK links left
scan_ik_links(d, h, n, s) ==
    IF Failed(s) \/ n = 0 THEN s
    ELSE scan_ik_links(d, h, n - 1,
            scan_angle_limit(d, Seeker_read_u8(d, seek_bin(d, h.bone_index_size, s))))

\* `if cond { seeker.seek_bin(len)?; }`
seek_if(d, cond, len, s) == IF cond THEN seek_bin(d, len, s) ELSE s

\* lines 184-194: the IK block whose link count was read into l
scan_ik(d, h, cond, s) ==
    LET links(l) == scan_ik_links(d, h, l.val, l)
    IN IF cond
       THEN links(Seeker_read_u32(d, seek_bin(d, h.bone_index_size + 4 + 4, s)))
       ELSE s

\* lines 166-194: the part of a bone that depends on the flags read into f
scan_bone_flags(d, h, f) ==
    IF Failed(f) THEN f
    ELSE scan_ik(d, h, Bit(f.val, 32),
         seek_if(d, Bit(f.val, 8192), 4,
         seek_if(d, Bit(f.val, 2048), 12 + 12,
         seek_if(d, Bit(f.val, 1024), 12,
         seek_if(d, Bit(f.val, 256) \/ Bit(f.val, 512), h.bone_index_size + 4,
         seek_bin(d, IF ~Bit(f.val, 1) THEN 12 ELSE h.bone_index_size, f))))))

\* lines 162-195
scan_bone(d, h, s) ==
    scan_bone_flags(d, h, Seeker_read_u16(d,
    seek_bin(d, 12 + h.bone_index_size + 4,
    seek_string(d,
    seek_string(d, s)))))

RECURSIVE scan_entries(_, _, _, _)
\* lines 209-211, 214-216, 219-221, 224-226: `for _ in 0..len { seek_bin(size) }`
scan_entries(d, size, n, s) ==
    IF Failed(s) \/ n = 0 THEN s
    ELSE scan_entries(d, size, n - 1, seek_bin(d, size, s))

RECURSIVE scan_material_entries_short(_, _, _, _)
\* The scan of the material morph entries that leaves the edge colour out of
\* the block it skips
scan_material_entries_short(d, h, n, s) ==
    IF Failed(s) \/ n = 0 THEN s
    ELSE scan_material_entries_short(d, h, n - 1,
            seek_bin(d, 16 + 12 + 4 + 12 + 4 + 16 + 16 + 16,
            Check(0..1, "morph material op", Seeker_read_u8(d,
            seek_bin(d, h.material_index_size, s)))))

RECURSIVE scan_material_entries(_, _, _, _)
\* lines 229-236
scan_material_entries(d, h, n, s) ==
    IF Failed(s) \/ n = 0 THEN s
    ELSE scan_material_entries(d, h, n - 1,
            seek_bin(d, 16 + 12 + 4 + 12 + 16 + 4 + 16 + 16 + 16,
            Check(0..1, "morph material op", Seeker_read_u8(d,
            seek_bin(d, h.material_index_size, s)))))

\* lines 206-239: `match ty` on the kind read at offset off, the entry count
\* read into n
scan_morph_entries(d, h, ty, off, n) ==
    IF Failed(n) THEN n
    ELSE CASE ty = 0 ->
                scan_entries(d, h.morph_index_size + 4, n.val,
                             Checked(off, "morph type", n))
           [] ty = 1 ->
                scan_entries(d, h.vertex_index_size + 12, n.val,
                             Checked(off, "morph type", n))
           [] ty = 2 ->
                scan_entries(d, h.bone_index_size + 12 + 16, n.val,
                             Checked(off, "morph type", n))
           [] ty \in 3..7 ->
                scan_entries(d, h.vertex_index_size + 16, n.val,
                             Checked(off, "morph type", n))
           [] ty = 8 ->
                scan_material_entries(d, h, n.val, Checked(off, "morph type", n))
           [] OTHER -> Reject("morph type", n)

\* lines 204-239: the kind read into ty; the entry count is read before the
\* kind is looked at
scan_morph_kind(d, h, ty) ==
    scan_morph_entries(d, h, ty.val, ty.pos - 1,
                       Seeker_read_u32(d, Noted(0..8, "morph type", ty)))

\* lines 198-240
scan_morph(d, h, s) ==
    scan_morph_kind(d, h, Seeker_read_u8(d,
    Check(0..4, "morph panel", Seeker_read_u8(d,
    seek_string(d,
    seek_string(d, s))))))

\* lines 250-258: `match element` on the element kind read into e
scan_element(d, h, e) ==
    IF Failed(e) THEN e
    ELSE CASE e.val = 0 ->
                seek_bin(d, h.bone_index_size,
                         Checked(e.pos - 1, "display group element", e))
           [] e.val = 1 ->
                seek_bin(d, h.morph_index_size,
                         Checked(e.pos - 1, "display group element", e))
           [] OTHER -> Reject("display group element", Noted(0..1, "display group element", e))

RECURSIVE scan_elements(_, _, _, _)
\* lines 248-259: the n elements left
scan_elements(d, h, n, s) ==
    IF Failed(s) \/ n = 0 THEN s
    ELSE scan_elements(d, h, n - 1, scan_element(d, h, Seeker_read_u8(d, s)))

\* lines 243-260
scan_display_group(d, h, s) ==
    LET elements(n) == scan_elements(d, h, n.val, n)
    IN elements(Seeker_read_u32(d,
       seek_bin(d, 1,
       seek_string(d,
       seek_string(d, s)))))

\* lines 263-276
scan_rigid(d, h, s) ==
    Check(0..2, "rigid method", Seeker_read_u8(d,
    seek_bin(d, 12 + 12 + 12 + 4 + 4 + 4 + 4 + 4,
    Check(0..2, "rigid shape", Seeker_read_u8(d,
    seek_bin(d, h.bone_index_size + 1 + 2,
    seek_string(d,
    seek_string(d, s))))))))

\* lines 279-287
scan_joint(d, h, s) ==
    seek_bin(d, h.rigid_index_size * 2 + 12 * 2 + 12 * 4 + 12 * 2,
    Check({0}, "joint type", Seeker_read_u8(d,
    seek_string(d,
    seek_string(d, s)))))

--------------------------------------------------------------------------
(* Reader::new as a machine: m = [pc, remain, header, seeker, indices,     *)
(* result].  ScanStep is one step of it on buffer d; the actions below     *)
(* apply it to the state, and Run applies it until Reader::new returns.    *)

NoIndices ==
    [name |-> -1, name_en |-> -1, comment |-> -1, comment_en |-> -1,
     vertices |-> -1, faces |-> -1, textures |-> -1, materials |-> -1,
     bones |-> -1, morphs |-> -1, display_groups |-> -1, rigids |-> -1,
     joints |-> -1]

\* The sections in file order (Indices::new scans them in this order)
Sections ==
    <<"vertices", "faces", "textures", "materials", "bones", "morphs",
      "display_groups", "rigids", "joints">>

SectionSet == {Sections[i] : i \in 1..Len(Sections)}

SectionNo(sec) == CHOOSE i \in 1..Len(Sections) : Sections[i] = sec

\* The program point after the loop of section sec
Following(sec) ==
    IF SectionNo(sec) = Len(Sections) THEN "ready" ELSE Sections[SectionNo(sec) + 1]

Running == [kind |-> "none", msg |-> ""]

Ok == [kind |-> "Ok", msg |-> ""]

Start ==
    [pc |-> "new", remain |-> -1, header |-> NoHeader, seeker |-> Seeker_new(0),
     indices |-> NoIndices, result |-> Running]

\* `?` or `return Err(..)`: Reader::new returns the error of seeker s
Raise(m, s) == [m EXCEPT !.pc = "failed", !.seeker = s, !.result = s.err]

\* `if !ok { return Err(e) }` after the read that left r
Require(ok, e, r) == IF Failed(r) \/ ok THEN r ELSE [r EXCEPT !.err = e]

\* The header checks with the index-size test stopping one byte short, so
\* that the rigid index size goes unchecked
check_fields_short(d, r) ==
    IF Failed(r) THEN r
    ELSE IF Byte(d, 9) \notin {0, 1} THEN [r EXCEPT !.err = invalid_header("encoding")]
    ELSE IF Byte(d, 10) > MaxExtendedUv
         THEN [r EXCEPT !.err = invalid_header("extended uv")]
    ELSE IF \E i \in 11..15 : Byte(d, i) \notin IndexSizes
         THEN [r EXCEPT !.err = invalid_header("index size")]
    ELSE r

\* lines 518-534: the checks on the eight bytes after the header length
check_fields(d, r) ==
    IF Failed(r) THEN r
    ELSE IF Byte(d, 9) \notin {0, 1} THEN [r EXCEPT !.err = invalid_header("encoding")]
    ELSE IF Byte(d, 10) > MaxExtendedUv
         THEN [r EXCEPT !.err = invalid_header("extended uv")]
    ELSE IF \E i \in 11..16 : Byte(d, i) \notin IndexSizes
         THEN [r EXCEPT !.err = invalid_header("index size")]
    ELSE r

\* The header reads with the version checked before the magic number is
\* looked at
read_header_version_first(d, s) ==
    check_fields(d, read_exact(d, 8, 0,
    Require(Len(d) >= 9 /\ Byte(d, 8) = DataLen, invalid_header("data length"),
            read_exact(d, 1, 0,
    Require(Len(d) >= 4 /\ SubSeq(d, 1, 4) = Magic, invalid_header("magic number"),
    Require(Len(d) >= 8 /\ le_f32(d, 4) = VersionBits, UnsupportedVersion,
            read_exact(d, 4, 0,
            read_exact(d, 4, 0, s))))))))

\* lines 501-534: the header reads and checks, in the order of the code; a
\* check looks at its bytes only once they have been read
read_header(d, s) ==
    check_fields(d, read_exact(d, 8, 0,
    Require(Len(d) >= 9 /\ Byte(d, 8) = DataLen, invalid_header("data length"),
            read_exact(d, 1, 0,
    Require(Len(d) >= 8 /\ le_f32(d, 4) = VersionBits, UnsupportedVersion,
            read_exact(d, 4, 0,
    Require(Len(d) >= 4 /\ SubSeq(d, 1, 4) = Magic, invalid_header("magic number"),
            read_exact(d, 4, 0, s))))))))

\* lines 535-544
Header_new(d) ==
    [encoding |-> Byte(d, 9), extended_uv |-> Byte(d, 10),
     vertex_index_size |-> Byte(d, 11), texture_index_size |-> Byte(d, 12),
     material_index_size |-> Byte(d, 13), bone_index_size |-> Byte(d, 14),
     morph_index_size |-> Byte(d, 15), rigid_index_size |-> Byte(d, 16)]

\* Reader::new goes on with Indices::new, or returns the error of seeker s
header_read(d, m, s) ==
    IF Failed(s) THEN Raise(m, s)
    ELSE [m EXCEPT !.pc = "name", !.seeker = s, !.header = Header_new(d)]

\* lines 501-545: Reader::new up to the call of Indices::new
Reader_new(d, m) == header_read(d, m, read_header(d, m.seeker))

\* `let which = seeker.seek_string()?;` where s is the seeker after it
name_sought(which, m, s) ==
    IF m.pc = "failed" THEN m
    ELSE IF Failed(s) THEN Raise(m, s)
    ELSE [m EXCEPT !.seeker = s, !.indices = [@ EXCEPT ![which] = s.val]]

\* One of lines 99-102
seek_name(d, which, m) == name_sought(which, m, seek_string(d, m.seeker))

\* The vertex section follows the names
names_sought(m) == IF m.pc = "failed" THEN m ELSE [m EXCEPT !.pc = "vertices"]

\* lines 99-102: the four metadata strings
scan_names(d, m) ==
    names_sought(
    seek_name(d, "comment_en",
    seek_name(d, "comment",
    seek_name(d, "name_en",
    seek_name(d, "name", m)))))

\* A `for _ in 0..len` loop whose iterations are used up is left: the scan goes
\* on with the following section, and after the joints Reader::new returns Ok.
Leave(m) ==
    IF m.remain # 0 THEN m
    ELSE IF Following(m.pc) = "ready"
         THEN [m EXCEPT !.pc = "ready", !.remain = -1, !.result = Ok]
         ELSE [m EXCEPT !.pc = Following(m.pc), !.remain = -1]

\* The section offset taken after the count is read instead of before it
section_counted_late(m, n) ==
    IF Failed(n) THEN Raise(m, n)
    ELSE Leave([m EXCEPT !.seeker = n, !.remain = n.val,
                         !.indices = [@ EXCEPT ![m.pc] = n.pos]])

\* The count of section m.pc was read into n
section_counted(m, n) ==
    IF Failed(n) THEN Raise(m, n)
    ELSE Leave([m EXCEPT !.seeker = n, !.remain = n.val,
                         !.indices = [@ EXCEPT ![m.pc] = m.seeker.pos]])

\* `let sec = seeker.position(); let sec_len = seeker.read_u32()?;`
section_start(d, m) == section_counted(m, Seeker_read_u32(d, m.seeker))

\* The face section was scanned, leaving s
faces_scanned(m, s) ==
    IF Failed(s) THEN Raise(m, s)
    ELSE Leave([m EXCEPT !.seeker = s, !.remain = 0,
                         !.indices = [@ EXCEPT !.faces = m.seeker.pos]])

\* lines 127-132: the face section has no loop
faces_section(d, m) == faces_scanned(m, scan_faces(d, m.header, m.seeker))

\* The body of the loop of section sec
scan_record(d, h, s, sec) ==
    CASE sec = "vertices"       -> scan_vertex(d, h, s)
      [] sec = "textures"       -> scan_texture(d, h, s)
      [] sec = "materials"      -> scan_material(d, h, s)
      [] sec = "bones"          -> scan_bone(d, h, s)
      [] sec = "morphs"         -> scan_morph(d, h, s)
      [] sec = "display_groups" -> scan_display_group(d, h, s)
      [] sec = "rigids"         -> scan_rigid(d, h, s)
      [] sec = "joints"         -> scan_joint(d, h, s)

\* A loop body that leaves the number of iterations left as it was
record_scanned_keep(m, s) ==
    IF Failed(s) THEN Raise(m, s)
    ELSE Leave([m EXCEPT !.seeker = s])

\* One iteration of the loop of section m.pc left seeker s
record_scanned(m, s) ==
    IF Failed(s) THEN Raise(m, s)
    ELSE Leave([m EXCEPT !.seeker = s, !.remain = m.remain - 1])

\* One iteration of the loop of section m.pc
loop_step(d, m) == record_scanned(m, scan_record(d, m.header, m.seeker, m.pc))

ScanStep(d, m) ==
    CASE m.pc = "new"   -> Reader_new(d, m)
      [] m.pc = "name"  -> scan_names(d, m)
      [] m.pc = "faces" -> faces_section(d, m)
      [] m.pc \in SectionSet \ {"faces"} /\ m.remain = -1 -> section_start(d, m)
      [] m.pc \in SectionSet \ {"faces"} /\ m.remain > 0  -> loop_step(d, m)

Returned(m) == m.pc \in {"ready", "failed"}

RECURSIVE RunFrom(_, _)
RunFrom(d, m) == IF Returned(m) THEN m ELSE RunFrom(d, ScanStep(d, m))

\* Reader::new on buffer d, run to its return
Run(d) == RunFrom(d, Start)

--------------------------------------------------------------------------
(* String decoding (std): a String is the sequence of its chars' code      *)
(* points.                                                                 *)

\* U+FFFD REPLACEMENT CHARACTER
Replacement == 65533

RECURSIVE utf16_chars(_, _)
\* String::from_utf16_lossy on the code units u[i..]: a surrogate pair is one
\* char, a lone surrogate becomes U+FFFD
utf16_chars(u, i) ==
    IF i > Len(u) THEN <<>>
    ELSE IF u[i] < 55296 \/ u[i] > 57343 THEN <<u[i]>> \o utf16_chars(u, i + 1)
    ELSE IF u[i] <= 56319 /\ i < Len(u) /\ u[i + 1] >= 56320 /\ u[i + 1] <= 57343
         THEN <<65536 + (u[i] - 55296) * 1024 + (u[i + 1] - 56320)>> \o utf16_chars(u, i + 2)
    ELSE <<Replacement>> \o utf16_chars(u, i + 1)

\* slice::from_raw_parts(ptr as *const u16, len / 2): the little-endian code
\* units of the payload; the last byte of an odd payload is left out
code_units(b) == [k \in 1..(Len(b) \div 2) |-> b[2 * k - 1] + 256 * b[2 * k]]

Cont(b, i) == i <= Len(b) /\ b[i] >= 128 /\ b[i] <= 191

In(b, i, lo, hi) == i <= Len(b) /\ b[i] >= lo /\ b[i] <= hi

\* The range the second byte of a sequence led by b0 must lie in
SecondLo(b0) == IF b0 = 224 THEN 160 ELSE IF b0 = 240 THEN 144 ELSE 128

SecondHi(b0) == IF b0 = 237 THEN 159 ELSE IF b0 = 244 THEN 143 ELSE 191

RECURSIVE utf8_chars(_, _)
\* String::from_utf8_lossy on b[i..]: each maximal invalid prefix of a
\* sequence becomes one U+FFFD
utf8_chars(b, i) ==
    IF i > Len(b) THEN <<>>
    ELSE LET b0 == b[i]
             second == In(b, i + 1, SecondLo(b0), SecondHi(b0))
         IN IF b0 < 128 THEN <<b0>> \o utf8_chars(b, i + 1)
            ELSE IF b0 >= 194 /\ b0 <= 223
                 THEN IF Cont(b, i + 1)
                      THEN <<(b0 - 192) * 64 + (b[i + 1] - 128)>> \o utf8_chars(b, i + 2)
                      ELSE <<Replacement>> \o utf8_chars(b, i + 1)
            ELSE IF b0 >= 224 /\ b0 <= 239
                 THEN IF ~second THEN <<Replacement>> \o utf8_chars(b, i + 1)
                      ELSE IF ~Cont(b, i + 2) THEN <<Replacement>> \o utf8_chars(b, i + 2)
                      ELSE <<(b0 - 224) * 4096 + (b[i + 1] - 128) * 64 + (b[i + 2] - 128)>>
                           \o utf8_chars(b, i + 3)
            ELSE IF b0 >= 240 /\ b0 <= 244
                 THEN IF ~second THEN <<Replacement>> \o utf8_chars(b, i + 1)
                      ELSE IF ~Cont(b, i + 2) THEN <<Replacement>> \o utf8_chars(b, i + 2)
                      ELSE IF ~Cont(b, i + 3) THEN <<Replacement>> \o utf8_chars(b, i + 3)
                      ELSE <<(b0 - 240) * 262144 + (b[i + 1] - 128) * 4096
                             + (b[i + 2] - 128) * 64 + (b[i + 3] - 128)>>
                           \o utf8_chars(b, i + 4)
            ELSE <<Replacement>> \o utf8_chars(b, i + 1)

\* Encoding::Utf16 = 0, Encoding::Utf8 = 1
decode_string(encoding, b) ==
    IF encoding = 0 THEN utf16_chars(code_units(b), 1) ELSE utf8_chars(b, 1)

--------------------------------------------------------------------------
(* DataCursor: a decoder's cursor.  A DataCursor value carries the cursor  *)
(* position, the panic that stopped it ("" while it runs; every later      *)
(* operation is then skipped), the value of the last read, `disp` = the    *)
(* tag bytes it has dispatched on, each with its offset, and `rec` = the   *)
(* fields bound so far of the struct literal being evaluated.  Every       *)
(* operation takes the cursor as its last argument, so a sequence of       *)
(* statements reads from the innermost application outwards.               *)

\* DataCursor::with_position(data, header, SeekFrom::Start(pos))
with_position(pos) ==
    [pos |-> pos, panic |-> "", val |-> 0, disp |-> {}, rec |-> <<>>]

Panicked(c) == c.panic # ""

\* Option<T>
None == <<>>

Some(v) == <<v>>

\* `self.reader.read_exact(&mut buffer).unwrap()` of n bytes, returning v
read_bin(d, n, v, c) ==
    IF c.panic # "" THEN c
    ELSE IF c.pos + n > Len(d) THEN [c EXCEPT !.panic = "short read"]
    ELSE [c EXCEPT !.pos = c.pos + n, !.val = v]

Avail(d, n, c) == c.panic = "" /\ c.pos + n <= Len(d)

read_u8(d, c)  == read_bin(d, 1, IF Avail(d, 1, c) THEN Byte(d, c.pos) ELSE 0, c)

read_u16(d, c) == read_bin(d, 2, IF Avail(d, 2, c) THEN le_u16(d, c.pos) ELSE 0, c)

read_u32(d, c) == read_bin(d, 4, IF Avail(d, 4, c) THEN le_u32(d, c.pos) ELSE 0, c)

read_i8(d, c)  == read_bin(d, 1, IF Avail(d, 1, c) THEN le_i8(d, c.pos) ELSE 0, c)

\* The 2-byte read that takes the bytes as unsigned
read_i16_unsigned(d, c) == read_u16(d, c)

read_i16(d, c) == read_bin(d, 2, IF Avail(d, 2, c) THEN le_i16(d, c.pos) ELSE 0, c)

read_i32(d, c) == read_bin(d, 4, IF Avail(d, 4, c) THEN le_i32(d, c.pos) ELSE 0, c)

read_f32(d, c) == read_bin(d, 4, IF Avail(d, 4, c) THEN le_f32(d, c.pos) ELSE 0, c)

\* DataCursor::read_vec::<N>: N f32 read as one block of 4 * N bytes
read_vec(d, N, c) ==
    read_bin(d, 4 * N,
             IF Avail(d, 4 * N, c) THEN [k \in 1..N |-> le_f32(d, c.pos + 4 * (k - 1))]
             ELSE <<>>,
             c)

read_vec2(d, c) == read_vec(d, 2, c)

read_vec3(d, c) == read_vec(d, 3, c)

read_vec4(d, c) == read_vec(d, 4, c)

\* read_string with String::from_utf8(buffer).unwrap() in place of the lossy
\* conversion: a malformed UTF-8 payload panics
read_payload_strict(d, h, l) ==
    IF Panicked(l) THEN l
    ELSE IF l.val = 0 THEN [l EXCEPT !.val = <<>>]
    ELSE IF Avail(d, l.val, l) /\ h.encoding = 1
            /\ \E k \in 1..Len(utf8_chars(SubSeq(d, l.pos + 1, l.pos + l.val), 1)) :
                 utf8_chars(SubSeq(d, l.pos + 1, l.pos + l.val), 1)[k] = Replacement
         THEN [l EXCEPT !.panic = "invalid string"]
    ELSE read_bin(d, l.val,
                  IF Avail(d, l.val, l)
                  THEN decode_string(h.encoding, SubSeq(d, l.pos + 1, l.pos + l.val))
                  ELSE <<>>,
                  l)

\* DataCursor::read_string after `let len = self.read_u32() as usize;` left l
read_payload(d, h, l) ==
    IF Panicked(l) THEN l
    ELSE IF l.val = 0 THEN [l EXCEPT !.val = <<>>]
    ELSE read_bin(d, l.val,
                  IF Avail(d, l.val, l)
                  THEN decode_string(h.encoding, SubSeq(d, l.pos + 1, l.pos + l.val))
                  ELSE <<>>,
                  l)

\* DataCursor::read_string
read_string(d, h, c) == read_payload(d, h, read_u32(d, c))

\* The cursor c with v as the value read, unless c has panicked
Done(v, c) == IF c.panic # "" THEN c ELSE [c EXCEPT !.val = v]

\* `_ => unreachable!()`
Unreachable(c) == IF c.panic # "" THEN c ELSE [c EXCEPT !.panic = "unreachable"]

\* `(v >= 0).then_some(v as usize)` on the i32 in v
then_some(v) ==
    IF v.panic # "" THEN v
    ELSE [v EXCEPT !.val = IF v.val >= 0 THEN Some(v.val) ELSE None]

\* DataCursor::read_signed_index
read_signed_index(d, size, c) ==
    then_some(CASE size = 1 -> read_i8(d, c)
                [] size = 2 -> read_i16(d, c)
                [] size = 4 -> read_i32(d, c)
                [] OTHER    -> Unreachable(c))

\* `v as usize` on the integer in v
cast_usize(v) == IF v.panic # "" THEN v ELSE [v EXCEPT !.val = as_usize(v.val)]

\* The vertex index read under the signed convention of the other indices
read_vertex_index_signed(d, h, c) ==
    cast_usize(CASE h.vertex_index_size = 1 -> read_i8(d, c)
                 [] h.vertex_index_size = 2 -> read_i16(d, c)
                 [] h.vertex_index_size = 4 -> read_i32(d, c)
                 [] OTHER -> Unreachable(c))

\* DataCursor::read_vertex_index
read_vertex_index(d, h, c) ==
    cast_usize(CASE h.vertex_index_size = 1 -> read_u8(d, c)
                 [] h.vertex_index_size = 2 -> read_u16(d, c)
                 [] h.vertex_index_size = 4 -> read_i32(d, c)
                 [] OTHER -> Unreachable(c))

read_texture_index(d, h, c)  == read_signed_index(d, h.texture_index_size, c)

read_material_index(d, h, c) == read_signed_index(d, h.material_index_size, c)

read_bone_index(d, h, c)     == read_signed_index(d, h.bone_index_size, c)

read_morph_index(d, h, c)    == read_signed_index(d, h.morph_index_size, c)

read_rigid_index(d, h, c)    == read_signed_index(d, h.rigid_index_size, c)

\* A struct literal is begun on cursor c: none of its fields is bound yet
New(c) == [c EXCEPT !.rec = <<>>]

\* A struct literal of the enum variant `kind` is begun on cursor c
Variant(kind, c) == [c EXCEPT !.rec = [kind |-> kind]]

\* `let name = <read>;` or `name: <read>,` where r is the cursor after the read
Put(name, r) == IF r.panic # "" THEN r ELSE [r EXCEPT !.rec = (name :> r.val) @@ @]

\* `name: [<read>, <read>, ..]`: r is the cursor after the read of the next element
Push(name, r) ==
    IF r.panic # "" THEN r
    ELSE [r EXCEPT !.rec =
            (name :> ((IF name \in DOMAIN r.rec THEN r.rec[name] ELSE <<>>) \o <<r.val>>)) @@ @]

\* Fields bound without a read
PutAll(fields, r) == IF r.panic # "" THEN r ELSE [r EXCEPT !.rec = fields @@ @]

\* The struct literal begun on cursor c is complete on cursor r: it is the
\* value, and the enclosing literal is resumed
Ret(c, r) == IF r.panic # "" THEN r ELSE [r EXCEPT !.val = r.rec, !.rec = c.rec]

\* `Some(<read>)`
Opt(r) == IF r.panic # "" THEN r ELSE [r EXCEPT !.val = Some(r.val)]

\* `match tag { 0 => names[1], 1 => names[2], .. }` on the tag in r
Enum(names, r) == IF r.panic # "" THEN r ELSE [r EXCEPT !.val = names[r.val + 1]]

\* A tag byte at offset off the decoder dispatches on (`match data.read_u8()`)
Dispatched(off, category, c) == [c EXCEPT !.disp = @ \cup {<<off, category>>}]

\* `match tag { 0 => .., hi => .., _ => unreachable!() }` on the tag read into t
match_tag(hi, category, t) ==
    IF t.panic # "" THEN t
    ELSE IF t.val <= hi THEN Dispatched(t.pos - 1, category, t)
    ELSE Unreachable(Dispatched(t.pos - 1, category, t))

\* `match data.read_u8() { 0 => .., hi => .., _ => unreachable!() }`
read_tag(d, hi, category, c) == match_tag(hi, category, read_u8(d, c))

--------------------------------------------------------------------------
(* The section decoders: the closure each accessor hands to DataIterator.  *)
(* Each takes the cursor at the start of a record and returns the cursor   *)
(* after it, with val = the decoded record.                                *)

\* `data.read_<kind>()`
read(kind, d, h, c) ==
    CASE kind = "u8"  -> read_u8(d, c)
      [] kind = "u16" -> read_u16(d, c)
      [] kind = "u32" -> read_u32(d, c)
      [] kind = "i32" -> read_i32(d, c)
      [] kind = "f32" -> read_f32(d, c)
      [] kind = "vec2" -> read_vec2(d, c)
      [] kind = "vec3" -> read_vec3(d, c)
      [] kind = "vec4" -> read_vec4(d, c)
      [] kind = "string" -> read_string(d, h, c)
      [] kind = "vertex_index" -> read_vertex_index(d, h, c)
      [] kind = "texture_index" -> read_texture_index(d, h, c)
      [] kind = "material_index" -> read_material_index(d, h, c)
      [] kind = "bone_index" -> read_bone_index(d, h, c)
      [] kind = "morph_index" -> read_morph_index(d, h, c)
      [] kind = "rigid_index" -> read_rigid_index(d, h, c)

\* `let name = data.read_<kind>();` or `name: data.read_<kind>(),` on cursor c
Field(name, kind, d, h, c) ==
    IF c.panic # "" THEN c ELSE Put(name, read(kind, d, h, c))

\* `name: [data.read_<kind>(), ..]`: the next element of the array is read
Item(name, kind, d, h, c) ==
    IF c.panic # "" THEN c ELSE Push(name, read(kind, d, h, c))

\* lines 790-793: AngleLimit { lower, upper }, also lines 1024-1031
angle_limit(d, h, c) ==
    Ret(c,
    Field("upper", "vec3", d, h,
    Field("lower", "vec3", d, h, New(c))))

\* lines 790-793: `(data.read_u8() == 1).then(|| AngleLimit {..})` on the
\* flag read into f
ik_limit(d, h, f) ==
    IF Panicked(f) THEN f
    ELSE IF f.val = 1 THEN Opt(angle_limit(d, h, f))
    ELSE Done(None, f)

\* The display element decoder that reads a morph element with the width of
\* a bone index
display_element_bone_width(d, h, e) ==
    IF Panicked(e) THEN e
    ELSE CASE e.val = 0 ->
                Ret(e, Field("index", "bone_index", d, h,
                       Variant("Bone", Dispatched(e.pos - 1, "display group element", e))))
           [] e.val = 1 ->
                Ret(e, Field("index", "bone_index", d, h,
                       Variant("Morph", Dispatched(e.pos - 1, "display group element", e))))
           [] OTHER -> Unreachable(Dispatched(e.pos - 1, "display group element", e))

\* lines 938-942: `match data.read_u8()` on the element kind read into e
display_element(d, h, e) ==
    IF Panicked(e) THEN e
    ELSE CASE e.val = 0 ->
                Ret(e, Field("index", "bone_index", d, h,
                       Variant("Bone", Dispatched(e.pos - 1, "display group element", e))))
           [] e.val = 1 ->
                Ret(e, Field("index", "morph_index", d, h,
                       Variant("Morph", Dispatched(e.pos - 1, "display group element", e))))
           [] OTHER -> Unreachable(Dispatched(e.pos - 1, "display group element", e))

\* lines 894-903: a material morph entry up to the ambient offset
material_colors_offset(d, h, c) ==
    Field("ambient", "vec3", d, h,
    Field("specular_power", "f32", d, h,
    Field("specular", "vec3", d, h,
    Field("diffuse", "vec4", d, h,
    Put("op", Enum(<<"Mul", "Add">>, read_tag(d, 1, "morph material op",
    Field("material", "material_index", d, h, New(c)))))))))

\* lines 904-908: its fields after the ambient offset, where r is the cursor
\* after it
material_textures_offset(d, h, c, r) ==
    IF Panicked(r) THEN r
    ELSE Ret(c,
         Field("toon", "vec4", d, h,
         Field("sphere", "vec4", d, h,
         Field("texture", "vec4", d, h,
         Field("edge_size", "f32", d, h,
         Field("edge_color", "vec4", d, h, r))))))

\* One element of a `(0..len).map(|_| ..)` of the decoders
element(d, h, what, c) ==
    CASE what = "extended_uv" -> read_vec4(d, c)
      [] what = "ik_link" ->
            Ret(c,
            Put("limit", ik_limit(d, h, read_u8(d,
            Field("bone", "bone_index", d, h, New(c))))))
      [] what = "group" ->
            Ret(c,
            Field("ratio", "f32", d, h,
            Field("morph", "morph_index", d, h, New(c))))
      [] what = "vertex" ->
            Ret(c,
            Field("offset", "vec3", d, h,
            Field("vertex", "vertex_index", d, h, New(c))))
      [] what = "bone" ->
            Ret(c,
            Field("rotation", "vec4", d, h,
            Field("offset", "vec3", d, h,
            Field("bone", "bone_index", d, h, New(c)))))
      [] what = "uv" ->
            Ret(c,
            Field("offset", "vec4", d, h,
            Field("vertex", "vertex_index", d, h, New(c))))
      [] what = "material" -> material_textures_offset(d, h, c, material_colors_offset(d, h, c))
      [] what = "display" -> display_element(d, h, read_u8(d, c))

\* An element was read, leaving e, after the elements acc
gathered(acc, e) == Done(Append(acc, e.val), e)

RECURSIVE collect_from(_, _, _, _, _)
\* The n elements left of a `(0..len).map(|_| element).collect::<Vec<_>>()`:
\* c.val holds the elements read so far; a panic in an element ends the decoding
collect_from(d, h, n, what, c) ==
    IF Panicked(c) \/ n = 0 THEN c
    ELSE collect_from(d, h, n - 1, what, gathered(c.val, element(d, h, what, c)))

\* `(0..n).map(|_| element).collect::<Vec<_>>()`
collect(d, h, n, what, c) == collect_from(d, h, n, what, Done(<<>>, c))

\* `let len = data.read_u32(); (0..len).map(|_| element).collect()` where the
\* read of len left l
collect_len(d, h, what, l) == collect(d, h, l.val, what, l)

\* The weight decoder with the four BDEF4 weights read before the four bone
\* indices
weight_weights_first(d, h, t) ==
    IF Panicked(t) THEN t
    ELSE CASE t.val = 0 ->
                Ret(t,
                Field("bone", "bone_index", d, h,
                Variant("Bdef1", Dispatched(t.pos - 1, "vertex weight type", t))))
           [] t.val = 1 ->
                Ret(t,
                Field("weight", "f32", d, h,
                Item("bones", "bone_index", d, h,
                Item("bones", "bone_index", d, h,
                Variant("Bdef2", Dispatched(t.pos - 1, "vertex weight type", t))))))
           [] t.val = 2 ->
                Ret(t,
                Item("bones", "bone_index", d, h,
                Item("bones", "bone_index", d, h,
                Item("bones", "bone_index", d, h,
                Item("bones", "bone_index", d, h,
                Item("weights", "f32", d, h,
                Item("weights", "f32", d, h,
                Item("weights", "f32", d, h,
                Item("weights", "f32", d, h,
                Variant("Bdef4", Dispatched(t.pos - 1, "vertex weight type", t)))))))))))
           [] t.val = 3 ->
                Ret(t,
                Field("r1", "vec3", d, h,
                Field("r0", "vec3", d, h,
                Field("c", "vec3", d, h,
                Field("weight", "f32", d, h,
                Item("bones", "bone_index", d, h,
                Item("bones", "bone_index", d, h,
                Variant("Sdef", Dispatched(t.pos - 1, "vertex weight type", t)))))))))
           [] OTHER -> Unreachable(Dispatched(t.pos - 1, "vertex weight type", t))

\* lines 604-634: `match data.read_u8()` on the weight type read into t
weight(d, h, t) ==
    IF Panicked(t) THEN t
    ELSE CASE t.val = 0 ->
                Ret(t,
                Field("bone", "bone_index", d, h,
                Variant("Bdef1", Dispatched(t.pos - 1, "vertex weight type", t))))
           [] t.val = 1 ->
                Ret(t,
                Field("weight", "f32", d, h,
                Item("bones", "bone_index", d, h,
                Item("bones", "bone_index", d, h,
                Variant("Bdef2", Dispatched(t.pos - 1, "vertex weight type", t))))))
           [] t.val = 2 ->
                Ret(t,
                Item("weights", "f32", d, h,
                Item("weights", "f32", d, h,
                Item("weights", "f32", d, h,
                Item("weights", "f32", d, h,
                Item("bones", "bone_index", d, h,
                Item("bones", "bone_index", d, h,
                Item("bones", "bone_index", d, h,
                Item("bones", "bone_index", d, h,
                Variant("Bdef4", Dispatched(t.pos - 1, "vertex weight type", t)))))))))))
           [] t.val = 3 ->
                Ret(t,
                Field("r1", "vec3", d, h,
                Field("r0", "vec3", d, h,
                Field("c", "vec3", d, h,
                Field("weight", "f32", d, h,
                Item("bones", "bone_index", d, h,
                Item("bones", "bone_index", d, h,
                Variant("Sdef", Dispatched(t.pos - 1, "vertex weight type", t)))))))))
           [] OTHER -> Unreachable(Dispatched(t.pos - 1, "vertex weight type", t))

\* lines 598-645
decode_vertex(d, h, c) ==
    Ret(c,
    Field("edge_ratio", "f32", d, h,
    Put("weight", weight(d, h, read_u8(d,
    Put("extended_uv", collect(d, h, h.extended_uv, "extended_uv",
    Field("uv", "vec2", d, h,
    Field("normal", "vec3", d, h,
    Field("position", "vec3", d, h, New(c)))))))))))

\* line 657
decode_face(d, h, c) == read_vertex_index(d, h, c)

\* line 669
decode_texture(d, h, c) == read_string(d, h, c)

\* lines 688-692: the five flag bits of the byte read into f
material_flags(f) ==
    PutAll([both |-> Bit(f.val, 1), ground_shadow |-> Bit(f.val, 2),
            self_shadow_map |-> Bit(f.val, 4), self_shadow |-> Bit(f.val, 8),
            edge |-> Bit(f.val, 16)], f)

\* The toon decoder with the shared toon number read as a signed byte
toon_shared_signed(d, h, t) ==
    IF Panicked(t) THEN t
    ELSE CASE t.val = 0 ->
                Ret(t, Field("index", "texture_index", d, h,
                       Variant("Texture", Dispatched(t.pos - 1, "material toon flag", t))))
           [] t.val = 1 ->
                Ret(t, Put("toon", read_i8(d,
                       Variant("Shared", Dispatched(t.pos - 1, "material toon flag", t)))))
           [] OTHER -> Unreachable(Dispatched(t.pos - 1, "material toon flag", t))

\* lines 704-708: `match data.read_u8()` on the toon flag read into t
toon(d, h, t) ==
    IF Panicked(t) THEN t
    ELSE CASE t.val = 0 ->
                Ret(t, Field("index", "texture_index", d, h,
                       Variant("Texture", Dispatched(t.pos - 1, "material toon flag", t))))
           [] t.val = 1 ->
                Ret(t, Field("toon", "u8", d, h,
                       Variant("Shared", Dispatched(t.pos - 1, "material toon flag", t))))
           [] OTHER -> Unreachable(Dispatched(t.pos - 1, "material toon flag", t))

\* lines 681-699: the fields up to the flags
material_colors(d, h, c) ==
    material_flags(read_u8(d,
    Field("ambient", "vec3", d, h,
    Field("specular_power", "f32", d, h,
    Field("specular", "vec3", d, h,
    Field("diffuse", "vec4", d, h,
    Field("name_en", "string", d, h,
    Field("name", "string", d, h, New(c)))))))))

\* lines 700-733: the fields after the flags, where r is the cursor after them
material_textures(d, h, c, r) ==
    IF Panicked(r) THEN r
    ELSE Ret(c,
         Field("index_count", "u32", d, h,
         Field("memo", "string", d, h,
         Put("toon", toon(d, h, read_u8(d,
         Put("sphere_mode", Enum(<<"None", "Add", "Mul", "SubTexture">>,
                                 read_tag(d, 3, "material sphere mode",
         Field("sphere", "texture_index", d, h,
         Field("texture", "texture_index", d, h,
         Field("edge_size", "f32", d, h,
         Field("edge_color", "vec4", d, h, r)))))))))))))

\* lines 681-733
decode_material(d, h, c) == material_textures(d, h, c, material_colors(d, h, c))

\* lines 765-769: `match connected_to` on flags & 0x0001
connected_to(d, h, flags, c) ==
    IF Panicked(c) THEN c
    ELSE IF ~Bit(flags, 1)
    THEN Ret(c, Field("offset", "vec3", d, h, Variant("Offset", c)))
    ELSE Ret(c, Field("bone", "bone_index", d, h, Variant("Bone", c)))

\* lines 770-776: the addition flags are 0x0040 (local), 0x0080 (rotation)
\* and 0x0100 (translation)
addition(d, h, flags, c) ==
    IF Panicked(c) THEN c
    ELSE IF Bit(flags, 128) \/ Bit(flags, 256)
    THEN Opt(Ret(c,
             Field("ratio", "f32", d, h,
             Field("bone", "bone_index", d, h,
             PutAll([rotation |-> Bit(flags, 128), translation |-> Bit(flags, 256),
                     local |-> Bit(flags, 64)], New(c))))))
    ELSE Done(None, c)

\* line 777
fixed_pole(d, flags, c) ==
    IF Panicked(c) THEN c
    ELSE IF Bit(flags, 1024) THEN Opt(read_vec3(d, c)) ELSE Done(None, c)

\* lines 778-781
local_pole(d, h, flags, c) ==
    IF Panicked(c) THEN c
    ELSE IF Bit(flags, 2048)
    THEN Opt(Ret(c,
             Field("z", "vec3", d, h,
             Field("x", "vec3", d, h, New(c)))))
    ELSE Done(None, c)

\* line 782
external_parent(d, flags, c) ==
    IF Panicked(c) THEN c
    ELSE IF Bit(flags, 8192) THEN Opt(cast_usize(read_i32(d, c))) ELSE Done(None, c)

\* lines 783-803
ik(d, h, flags, c) ==
    IF Panicked(c) THEN c
    ELSE IF Bit(flags, 32)
    THEN Opt(Ret(c,
             Put("links", collect_len(d, h, "ik_link", read_u32(d,
             Field("angle", "f32", d, h,
             Field("loop_count", "u32", d, h,
             Field("target_bone", "bone_index", d, h, New(c)))))))))
    ELSE Done(None, c)

\* The bone decoder with the IK block read in the place of its flag bit,
\* right after the connection target
bone_flags_ik_first(d, h, f) ==
    IF Panicked(f) THEN f
    ELSE PutAll([rotatable |-> Bit(f.val, 2), translatable |-> Bit(f.val, 4),
                 visibility |-> Bit(f.val, 8), operable |-> Bit(f.val, 16),
                 after_physics |-> Bit(f.val, 4096)],
         Put("external_parent", external_parent(d, f.val,
         Put("local_pole", local_pole(d, h, f.val,
         Put("fixed_pole", fixed_pole(d, f.val,
         Put("addition", addition(d, h, f.val,
         Put("ik", ik(d, h, f.val,
         Put("connected_to", connected_to(d, h, f.val, f)))))))))))))

\* lines 751-822: the part of a bone that depends on the flags read into f
bone_flags(d, h, f) ==
    IF Panicked(f) THEN f
    ELSE PutAll([rotatable |-> Bit(f.val, 2), translatable |-> Bit(f.val, 4),
                 visibility |-> Bit(f.val, 8), operable |-> Bit(f.val, 16),
                 after_physics |-> Bit(f.val, 4096)],
         Put("ik", ik(d, h, f.val,
         Put("external_parent", external_parent(d, f.val,
         Put("local_pole", local_pole(d, h, f.val,
         Put("fixed_pole", fixed_pole(d, f.val,
         Put("addition", addition(d, h, f.val,
         Put("connected_to", connected_to(d, h, f.val, f)))))))))))))

\* lines 745-823
decode_bone(d, h, c) ==
    Ret(c,
    bone_flags(d, h, read_u16(d,
    Field("deform_hierarchy", "i32", d, h,
    Field("parent", "bone_index", d, h,
    Field("position", "vec3", d, h,
    Field("name_en", "string", d, h,
    Field("name", "string", d, h, New(c)))))))))

\* The morph decoder with kind 3 taken for an extended-UV morph as well
morph_kind_uv_extended(d, h, ty, off, l) ==
    IF Panicked(l) THEN l
    ELSE CASE ty = 0 ->
                Ret(l, Put("list", collect(d, h, l.val, "group",
                       Variant("Group", Dispatched(off, "morph type", l)))))
           [] ty = 1 ->
                Ret(l, Put("list", collect(d, h, l.val, "vertex",
                       Variant("Vertex", Dispatched(off, "morph type", l)))))
           [] ty = 2 ->
                Ret(l, Put("list", collect(d, h, l.val, "bone",
                       Variant("Bone", Dispatched(off, "morph type", l)))))
           [] ty \in 3..7 ->
                Ret(l, Put("list", collect(d, h, l.val, "uv",
                       PutAll([channel |-> ty - 4],
                       Variant("ExtendedUv", Dispatched(off, "morph type", l))))))
           [] ty = 8 ->
                Ret(l, Put("list", collect(d, h, l.val, "material",
                       Variant("Material", Dispatched(off, "morph type", l)))))
           [] OTHER -> Unreachable(Dispatched(off, "morph type", l))

\* lines 848-913: `match kind` on the kind ty read at offset off, the entry
\* count read into l
morph_kind(d, h, ty, off, l) ==
    IF Panicked(l) THEN l
    ELSE CASE ty = 0 ->
                Ret(l, Put("list", collect(d, h, l.val, "group",
                       Variant("Group", Dispatched(off, "morph type", l)))))
           [] ty = 1 ->
                Ret(l, Put("list", collect(d, h, l.val, "vertex",
                       Variant("Vertex", Dispatched(off, "morph type", l)))))
           [] ty = 2 ->
                Ret(l, Put("list", collect(d, h, l.val, "bone",
                       Variant("Bone", Dispatched(off, "morph type", l)))))
           [] ty = 3 ->
                Ret(l, Put("list", collect(d, h, l.val, "uv",
                       Variant("Uv", Dispatched(off, "morph type", l)))))
           [] ty \in 4..7 ->
                Ret(l, Put("list", collect(d, h, l.val, "uv",
                       PutAll([channel |-> ty - 4],
                       Variant("ExtendedUv", Dispatched(off, "morph type", l))))))
           [] ty = 8 ->
                Ret(l, Put("list", collect(d, h, l.val, "material",
                       Variant("Material", Dispatched(off, "morph type", l)))))
           [] OTHER -> Unreachable(Dispatched(off, "morph type", l))

\* lines 846-913: the kind read into ty; the entry count is read before the
\* kind is looked at
morph_entries(d, h, ty) == morph_kind(d, h, ty.val, ty.pos - 1, read_u32(d, ty))

\* lines 835-920
decode_morph(d, h, c) ==
    Ret(c,
    Put("kind", morph_entries(d, h, read_u8(d,
    Put("panel", Enum(<<"Reserved", "Eyebrow", "Eye", "Mouth", "Other">>,
                      read_tag(d, 4, "morph panel",
    Field("name_en", "string", d, h,
    Field("name", "string", d, h, New(c))))))))))

\* `data.read_u8() != 0` on the byte read into r
nonzero(r) == IF Panicked(r) THEN r ELSE [r EXCEPT !.val = r.val # 0]

\* lines 932-950
decode_display_group(d, h, c) ==
    Ret(c,
    Put("elements", collect_len(d, h, "display", read_u32(d,
    Put("special", nonzero(read_u8(d,
    Field("name_en", "string", d, h,
    Field("name", "string", d, h, New(c))))))))))

\* lines 962-975: the fields up to the shape
rigid_shape(d, h, c) ==
    Put("shape", Enum(<<"Sphere", "Box", "Capsule">>,
                      read_tag(d, 2, "rigid shape",
    Field("non_collision_groups", "u16", d, h,
    Field("group", "u8", d, h,
    Field("bone", "bone_index", d, h,
    Field("name_en", "string", d, h,
    Field("name", "string", d, h, New(c)))))))))

\* lines 976-1005: the fields after the shape, where r is the cursor after it
rigid_dynamics(d, h, c, r) ==
    IF Panicked(r) THEN r
    ELSE Ret(c,
         Put("method", Enum(<<"Static", "Dynamic", "DynamicWithBone">>,
                            read_tag(d, 2, "rigid method",
         Field("friction", "f32", d, h,
         Field("repulsive", "f32", d, h,
         Field("dump_rotation", "f32", d, h,
         Field("dump_translation", "f32", d, h,
         Field("mass", "f32", d, h,
         Field("rotation", "vec3", d, h,
         Field("position", "vec3", d, h,
         Field("size", "vec3", d, h, r))))))))))))

\* lines 962-1005
decode_rigid(d, h, c) == rigid_dynamics(d, h, c, rigid_shape(d, h, c))

\* line 1021: `assert!(ty == 0)` on the type read into t
assert_joint_type(t) ==
    IF Panicked(t) THEN t
    ELSE IF t.val = 0 THEN Dispatched(t.pos - 1, "joint type", t)
    ELSE [Dispatched(t.pos - 1, "joint type", t) EXCEPT !.panic = "assert"]

\* lines 1017-1046
decode_joint(d, h, c) ==
    Ret(c,
    Field("spring_rotation", "vec3", d, h,
    Field("spring_translation", "vec3", d, h,
    Put("limit_rotation", angle_limit(d, h,
    Put("limit_translation", angle_limit(d, h,
    Field("rotation", "vec3", d, h,
    Field("position", "vec3", d, h,
    Item("rigids", "rigid_index", d, h,
    Item("rigids", "rigid_index", d, h,
    assert_joint_type(read_u8(d,
    Field("name_en", "string", d, h,
    Field("name", "string", d, h, New(c))))))))))))))))

\* The closure f of the accessor of section sec
decode(d, h, sec, c) ==
    CASE sec = "vertices"       -> decode_vertex(d, h, c)
      [] sec = "faces"          -> decode_face(d, h, c)
      [] sec = "textures"       -> decode_texture(d, h, c)
      [] sec = "materials"      -> decode_material(d, h, c)
      [] sec = "bones"          -> decode_bone(d, h, c)
      [] sec = "morphs"         -> decode_morph(d, h, c)
      [] sec = "display_groups" -> decode_display_group(d, h, c)
      [] sec = "rigids"         -> decode_rigid(d, h, c)
      [] sec = "joints"         -> decode_joint(d, h, c)

--------------------------------------------------------------------------
(* DataIterator and the accessors of Reader                                *)

StringNames == {"name", "name_en", "comment", "comment_en"}

\* A caller slot that holds nothing
Nothing == [kind |-> "nothing"]

\* Reader::name, name_en, comment, comment_en: the cursor after read_string
string_accessor(d, h, idx, which) == read_string(d, h, with_position(idx[which]))

\* One cursor per section shared by its accessor calls: a call made while
\* another iterator of the section is held resumes where that one stands
accessor_cursor_shared(d, idx, sec) ==
    IF \E j \in DOMAIN iters : iters[j].kind = "iterator" /\ iters[j].sec = sec
    THEN read_u32(d, [with_position(idx[sec]) EXCEPT !.pos =
            iters[CHOOSE j \in DOMAIN iters :
                    iters[j].kind = "iterator" /\ iters[j].sec = sec].data.pos])
    ELSE read_u32(d, with_position(idx[sec]))

\* The first lines of each section accessor: the cursor after `data.read_u32()`
accessor_cursor(d, idx, sec) == read_u32(d, with_position(idx[sec]))

\* DataIterator::new(data, len, f)
DataIterator_new(sec, c, len) ==
    [kind |-> "iterator", sec |-> sec, data |-> c, current |-> 0, len |-> len,
     out |-> <<>>, ended |-> FALSE]

\* The closure of iterator it returned, leaving cursor c (`out` keeps the
\* records yielded so far; a panic of the closure is left in data)
yielded(it, c) ==
    IF Panicked(c) THEN [it EXCEPT !.data = c]
    ELSE [it EXCEPT !.data = c, !.current = it.current + 1,
                    !.out = Append(it.out, c.val)]

\* DataIterator::next on iterator it (`ended` records that None was returned)
DataIterator_next(d, h, it) ==
    IF it.current >= it.len THEN [it EXCEPT !.ended = TRUE]
    ELSE yielded(it, decode(d, h, it.sec, it.data))

\* len() as the number of records still to be yielded
DataIterator_len_remaining(it) == it.len - it.current

\* ExactSizeIterator::len
DataIterator_len(it) == it.len

--------------------------------------------------------------------------
(* The inputs: files laid out as the format prescribes, for a choice of    *)
(* header profiles and record contents, valid and invalid, and their       *)
(* truncations.                                                            *)

\* The most records a generated section holds
MaxRecords == 2

\* The most entries a generated morph, display group or IK chain holds
MaxEntries == 2

Fill(n, b) == [i \in 1..n |-> b]

U16(n) == <<n % 256, n \div 256>>

U32(n) == <<n % 256, (n \div 256) % 256, (n \div 65536) % 256, n \div 16777216>>

\* A w-byte index: -1 is stored as all-ones, v >= 0 little-endian
Ix(w, v) == IF v < 0 THEN Fill(w, 255) ELSE SubSeq(U32(v), 1, w)

Str(b) == U32(Len(b)) \o b

RECURSIVE Concat(_)
Concat(ss) == IF ss = <<>> THEN <<>> ELSE Head(ss) \o Concat(Tail(ss))

\* A header profile: encoding, extended-UV count, and the six index sizes
\* in the order vertex, texture, material, bone, morph, rigid
Profile(e, x, w) == [encoding |-> e, extended_uv |-> x, sizes |-> w]

HeaderBytes(p) ==
    Magic \o <<0, 0, 0, 64>> \o <<DataLen, p.encoding, p.extended_uv>> \o p.sizes

SomeName == <<97, 0>>

VertexBytes(p, kind) ==
    LET b == p.sizes[4]
    IN Fill(32, 1) \o Fill(16 * p.extended_uv, 2) \o <<kind>>
       \o (CASE kind = 0 -> Ix(b, 0)
             [] kind = 1 -> Ix(b, 0) \o Ix(b, -1) \o Fill(4, 3)
             [] kind = 2 -> Ix(b, 0) \o Ix(b, 1) \o Ix(b, -1) \o Ix(b, 2) \o Fill(16, 3)
             [] kind = 3 -> Ix(b, 1) \o Ix(b, 0) \o Fill(4, 3) \o Fill(36, 4)
             [] OTHER -> <<>>)
       \o Fill(4, 5)

\* A face section declaring `count` indices and holding the indices vs
FacesBytes(p, count, vs) ==
    U32(count) \o Concat([i \in 1..Len(vs) |-> Ix(p.sizes[1], vs[i])])

\* payload: the bytes after the toon flag, up to the memo
MaterialToonBytes(p, sphere, toon_flag, payload) ==
    LET t == p.sizes[2]
    IN Str(SomeName) \o Str(<<>>) \o Fill(16 + 12 + 4 + 12, 1) \o <<31>> \o Fill(16 + 4, 2)
       \o Ix(t, 0) \o Ix(t, -1) \o <<sphere, toon_flag>>
       \o payload
       \o Str(SomeName) \o U32(3)

MaterialBytes(p, sphere, toon_flag) ==
    MaterialToonBytes(p, sphere, toon_flag,
                      IF toon_flag = 0 THEN Ix(p.sizes[2], 1) ELSE <<200>>)

\* links: the angle-limit byte of each IK link
BoneBytes(p, flags, links) ==
    LET b == p.sizes[4]
    IN Str(SomeName) \o Str(<<>>) \o Fill(12, 1) \o Ix(b, -1) \o U32(0) \o U16(flags)
       \o (IF Bit(flags, 1) THEN Ix(b, 1) ELSE Fill(12, 2))
       \o (IF Bit(flags, 256) \/ Bit(flags, 512) THEN Ix(b, 0) \o Fill(4, 3) ELSE <<>>)
       \o (IF Bit(flags, 1024) THEN Fill(12, 4) ELSE <<>>)
       \o (IF Bit(flags, 2048) THEN Fill(24, 5) ELSE <<>>)
       \o (IF Bit(flags, 8192) THEN U32(7) ELSE <<>>)
       \o (IF Bit(flags, 32)
           THEN Ix(b, 0) \o U32(9) \o Fill(4, 6) \o U32(Len(links))
                \o Concat([i \in 1..Len(links) |->
                      Ix(b, 1) \o <<links[i]>> \o (IF links[i] = 1 THEN Fill(24, 7) ELSE <<>>)])
           ELSE <<>>)

\* n entries of morph kind `kind`, each material entry with operation op
MorphBytes(p, panel, kind, n, op) ==
    LET entry == CASE kind = 0 -> Ix(p.sizes[5], 0) \o Fill(4, 1)
                   [] kind = 1 -> Ix(p.sizes[1], 1) \o Fill(12, 2)
                   [] kind = 2 -> Ix(p.sizes[4], 0) \o Fill(12 + 16, 3)
                   [] kind \in 3..7 -> Ix(p.sizes[1], -1) \o Fill(16, 4)
                   [] kind = 8 -> Ix(p.sizes[3], 0) \o <<op>> \o Fill(112, 5)
                   [] OTHER -> <<>>
    IN Str(SomeName) \o Str(<<>>) \o <<panel, kind>> \o U32(n)
       \o Concat([i \in 1..n |-> entry])

\* elems: the kind byte of each element
DisplayGroupBytes(p, elems) ==
    Str(SomeName) \o Str(<<>>) \o <<1>> \o U32(Len(elems))
    \o Concat([i \in 1..Len(elems) |->
          <<elems[i]>> \o (IF elems[i] = 1 THEN Ix(p.sizes[5], 0) ELSE Ix(p.sizes[4], 1))])

RigidBytes(p, shape, method) ==
    Str(SomeName) \o Str(<<>>) \o Ix(p.sizes[4], 0) \o <<1>> \o U16(65535) \o <<shape>>
    \o Fill(56, 2) \o <<method>>

JointBytes(p, ty) ==
    Str(SomeName) \o Str(<<>>) \o <<ty>> \o Ix(p.sizes[6], 0) \o Ix(p.sizes[6], -1)
    \o Fill(96, 3)

\* A counted section: the count and the records
Counted(recs) == U32(Len(recs)) \o Concat(recs)

\* A file: the header, four strings, and the nine sections (each given as
\* its bytes)
File(p, sec) ==
    HeaderBytes(p) \o Str(SomeName) \o Str(<<>>) \o Str(SomeName) \o Str(<<>>)
    \o Concat([i \in 1..Len(Sections) |-> sec[Sections[i]]])

\* Every section empty
Empty(p) ==
    [s \in SectionSet |-> IF s = "faces" THEN FacesBytes(p, 0, <<>>) ELSE Counted(<<>>)]

\* The file whose only records are those of section s
Only(p, s, bytes) == File(p, [Empty(p) EXCEPT ![s] = bytes])

Rep(n, x) == [i \in 1..n |-> x]

\* Each index category takes each size, and no two categories agree in
\* every profile
Profiles ==
    {Profile(0, 2, <<1, 2, 4, 1, 2, 4>>), Profile(1, 0, <<2, 4, 1, 4, 1, 2>>),
     Profile(0, 4, <<4, 1, 2, 2, 4, 1>>), Profile(1, 1, <<1, 1, 1, 1, 1, 1>>)}

VertexKinds == {0, 1, 2, 3, 4, 255}

\* Bone flag words: each optional substructure alone, and together
BoneFlags == {0, 1, 64, 128, 256, 512, 896, 1024, 2048, 4096, 8192, 16351}

IkFlags == {32, 33, 16383}

LinkLists == {Rep(n, 1) : n \in 0..MaxEntries} \cup {Rep(n, 0) : n \in 1..MaxEntries}

MorphKinds == 0..9

VertexFiles(p) ==
    {Only(p, "vertices", Counted(Rep(n, VertexBytes(p, k)))) :
        n \in 1..MaxRecords, k \in VertexKinds}

FaceFiles(p) ==
    {Only(p, "faces", FacesBytes(p, n, [i \in 1..n |-> (i % 3) - 1])) :
        n \in 1..(3 * MaxRecords)}
    \cup {Only(p, "faces", FacesBytes(p, 258, <<>>))}

TextureFiles(p) ==
    {Only(p, "textures", Counted(Rep(n, Str(SomeName)))) : n \in 1..MaxRecords}

\* Shared toon numbers: the ends and the middle of the byte range
SharedToons == {0, 1, 127, 128, 255}

\* Toon texture references: absent (-1), the first texture, and a negative
\* index other than -1
ToonFiles(p) ==
    {Only(p, "materials", Counted(<<MaterialToonBytes(p, 0, 0, t)>>)) :
        t \in {Ix(p.sizes[2], -1), Ix(p.sizes[2], 0), Fill(p.sizes[2], 128)}}
    \cup {Only(p, "materials", Counted(<<MaterialToonBytes(p, 0, 1, <<b>>)>>)) :
            b \in SharedToons}

MaterialFiles(p) ==
    ToonFiles(p) \cup
    {Only(p, "materials", Counted(<<MaterialBytes(p, s, t)>>)) : s \in 0..4, t \in 0..2}
    \cup {Only(p, "materials", Counted(Rep(n, MaterialBytes(p, n % 4, n % 2)))) :
            n \in 2..MaxRecords}

BoneFiles(p) ==
    {Only(p, "bones", Counted(Rep(n, BoneBytes(p, f, <<>>)))) :
        n \in 1..MaxRecords, f \in BoneFlags}
    \cup {Only(p, "bones", Counted(<<BoneBytes(p, f, l)>>)) : f \in IkFlags, l \in LinkLists}

MorphFiles(p) ==
    {Only(p, "morphs", Counted(<<MorphBytes(p, k % 5, k, n, n % 2)>>)) :
        k \in MorphKinds, n \in 0..MaxEntries}
    \cup {Only(p, "morphs", Counted(<<MorphBytes(p, 5, 0, 0, 0)>>)),
          Only(p, "morphs", Counted(<<MorphBytes(p, 0, 8, 1, 2)>>)),
          Only(p, "morphs", Counted(<<MorphBytes(p, 0, 255, 0, 0)>>))}
    \cup {Only(p, "morphs", Counted(Rep(n, MorphBytes(p, 1, 1, 1, 0)))) : n \in 2..MaxRecords}

DisplayGroupFiles(p) ==
    {Only(p, "display_groups", Counted(Rep(n, DisplayGroupBytes(p, Rep(k, e))))) :
        n \in 1..MaxRecords, k \in 1..MaxEntries, e \in 0..2}

RigidFiles(p) ==
    {Only(p, "rigids", Counted(<<RigidBytes(p, s, m)>>)) : s \in 0..3, m \in 0..3}
    \cup {Only(p, "rigids", Counted(Rep(n, RigidBytes(p, 1, 2)))) : n \in 2..MaxRecords}

JointFiles(p) ==
    {Only(p, "joints", Counted(Rep(n, JointBytes(p, ty)))) : n \in 1..MaxRecords, ty \in 0..1}

\* One record in every section
Full(p) ==
    File(p, [vertices |-> Counted(<<VertexBytes(p, 3)>>),
             faces |-> FacesBytes(p, 3, <<0, 1, -1>>),
             textures |-> Counted(<<Str(SomeName)>>),
             materials |-> Counted(<<MaterialBytes(p, 1, 0)>>),
             bones |-> Counted(<<BoneBytes(p, 16383, <<1>>)>>),
             morphs |-> Counted(<<MorphBytes(p, 4, 8, 1, 1)>>),
             display_groups |-> Counted(<<DisplayGroupBytes(p, <<0, 1>>)>>),
             rigids |-> Counted(<<RigidBytes(p, 2, 1)>>),
             joints |-> Counted(<<JointBytes(p, 0)>>)])

FilesOf(p) ==
    {File(p, Empty(p)), Full(p)}
    \cup VertexFiles(p) \cup FaceFiles(p) \cup TextureFiles(p) \cup MaterialFiles(p)
    \cup BoneFiles(p) \cup MorphFiles(p) \cup DisplayGroupFiles(p) \cup RigidFiles(p)
    \cup JointFiles(p)

\* The complete files
Files == UNION {FilesOf(p) : p \in Profiles}

Prefixes(f) == {SubSeq(f, 1, n) : n \in 0..(Len(f) - 1)}

\* Truncated files: every proper prefix of some complete files
Truncated ==
    UNION {Prefixes(f) : f \in {Full(p) : p \in Profiles}}

\* The file f with the byte at offset i replaced by b
Patched(f, i, b) == [f EXCEPT ![i + 1] = b]

\* The header offsets patched: one of each checked field
HeaderOffsets == {0, 3, 4, 7, 8, 9, 10, 11, 16}

HeaderValues == {0, 1, 3, 5, 8, 255}

PlainProfile == Profile(1, 1, <<1, 2, 4, 1, 2, 4>>)

\* Files whose header violates one rule, or two at once (and some that
\* violate none: a patch may write a legal value)
BadHeaders ==
    {Patched(File(PlainProfile, Empty(PlainProfile)), i, b) :
        i \in HeaderOffsets, b \in HeaderValues}
    \cup {Patched(Patched(File(PlainProfile, Empty(PlainProfile)), i, 3), j, 5) :
            i, j \in HeaderOffsets}

\* The file f without its last n bytes
Cut(f, n) == SubSeq(f, 1, Len(f) - n)

\* Files that end k < 4 bytes after a morph kind byte outside 0..8: 16 bytes
\* follow the kind byte of a morph without entries in the complete file
BadKindCuts ==
    {Cut(Only(p, "morphs", Counted(<<MorphBytes(p, 0, 9, 0, 0)>>)), 16 - k) :
        p \in Profiles, k \in 0..3}

\* The lengths the files with a bad header are cut to: inside and at the end
\* of each header field
HeaderCuts == {3, 4, 7, 8, 9, 10, 11, 12, 16, 17}

BadHeaderCuts == {SubSeq(f, 1, n) : f \in BadHeaders, n \in HeaderCuts}

Inputs == Files \cup Truncated \cup BadHeaders \cup BadKindCuts \cup BadHeaderCuts

\* The inputs on which two callers decode side by side
SharedInputs ==
    {Full(p) : p \in Profiles} \cup BoneFiles(PlainProfile)
    \cup {Cut(Full(p), 1) : p \in Profiles}

\* The length of the buffers the primitive reads are exercised on
PrimLen == 4

\* Their bytes: the least and the greatest of each sign
PrimBytes == {0, 127, 128, 255}

PrimInputs == [1..PrimLen -> PrimBytes]

--------------------------------------------------------------------------
(* The state machine                                                       *)

\* The callers that hold values obtained from the Reader
Callers == DOMAIN iters

Mach ==
    [pc |-> pc, remain |-> remain, header |-> header, seeker |-> seeker,
     indices |-> indices, result |-> result]

Commit(m) ==
    /\ pc' = m.pc
    /\ remain' = m.remain
    /\ header' = m.header
    /\ seeker' = m.seeker
    /\ indices' = m.indices
    /\ result' = m.result

NoRet == [op |-> "", pos |-> 0]

\* Reader::new is called on one of `inputs`; `callers` will use the Reader
Begin(inputs, callers) ==
    /\ data \in inputs
    /\ pc = Start.pc
    /\ remain = Start.remain
    /\ header = Start.header
    /\ seeker = Start.seeker
    /\ indices = Start.indices
    /\ result = Start.result
    /\ iters = [i \in callers |-> Nothing]
    /\ panic = ""
    /\ cur = with_position(0)
    /\ ret = NoRet

\* One caller, every input
Init == Begin(Inputs, {1})

\* Reader::new takes the step ScanStep
Scan ==
    /\ Commit(ScanStep(data, Mach))
    /\ UNCHANGED <<data, iters, panic, cur, ret>>

\* Reader::new up to the call of Indices::new: the header checks
NewReader == pc = "new" /\ Scan

\* Indices::new: the four metadata strings
ScanNames == pc = "name" /\ Scan

\* Indices::new: the offset and the count of a section are read
SectionStart == pc \in SectionSet \ {"faces"} /\ remain = -1 /\ Scan

ScanVertices == pc = "vertices" /\ remain > 0 /\ Scan

ScanFaces == pc = "faces" /\ Scan

ScanTextures == pc = "textures" /\ remain > 0 /\ Scan

ScanMaterials == pc = "materials" /\ remain > 0 /\ Scan

ScanBones == pc = "bones" /\ remain > 0 /\ Scan

ScanMorphs == pc = "morphs" /\ remain > 0 /\ Scan

ScanDisplayGroups == pc = "display_groups" /\ remain > 0 /\ Scan

ScanRigids == pc = "rigids" /\ remain > 0 /\ Scan

ScanJoints == pc = "joints" /\ remain > 0 /\ Scan

\* The call `what` of caller i panicked with cursor c: the caller unwinds
Unwind(i, what, c) ==
    /\ panic' = c.panic
    /\ iters' = [iters EXCEPT ![i] = [kind |-> "panicked", of |-> what, data |-> c]]

\* Caller i holds the iterator the accessor built on cursor c
Hold(i, sec, c) ==
    IF Panicked(c) THEN Unwind(i, sec, c)
    ELSE /\ iters' = [iters EXCEPT ![i] = DataIterator_new(sec, c, c.val)]
         /\ UNCHANGED panic

\* Caller i calls one of the nine section accessors
Accessor(i, sec) ==
    /\ pc = "ready" /\ panic = ""
    /\ Hold(i, sec, accessor_cursor(data, indices, sec))
    /\ UNCHANGED <<data, pc, remain, header, seeker, indices, result, cur, ret>>

\* Caller i holds the String read_string left in cursor c
HoldString(i, which, c) ==
    IF Panicked(c) THEN Unwind(i, which, c)
    ELSE /\ iters' = [iters EXCEPT ![i] =
                        [kind |-> "string", which |-> which, val |-> c.val]]
         /\ UNCHANGED panic

\* Caller i calls one of the four string accessors
StringAccessor(i, which) ==
    /\ pc = "ready" /\ panic = ""
    /\ HoldString(i, which, string_accessor(data, header, indices, which))
    /\ UNCHANGED <<data, pc, remain, header, seeker, indices, result, cur, ret>>

\* One cursor per section shared by the iterators of that section: next() on
\* one of them also moves the others
Advance_shared(i, it) ==
    IF Panicked(it.data) THEN Unwind(i, it.sec, it.data)
    ELSE /\ iters' = [j \in DOMAIN iters |->
                        IF j = i THEN it
                        ELSE IF iters[j].kind = "iterator" /\ iters[j].sec = it.sec
                             THEN [iters[j] EXCEPT !.data = it.data]
                        ELSE iters[j]]
         /\ UNCHANGED panic

\* Caller i holds iterator it after next() returned or panicked
Advance(i, it) ==
    IF Panicked(it.data) THEN Unwind(i, it.sec, it.data)
    ELSE /\ iters' = [iters EXCEPT ![i] = it]
         /\ UNCHANGED panic

\* Caller i calls next() on the iterator it holds
IteratorNext(i) ==
    /\ pc = "ready" /\ panic = ""
    /\ iters[i].kind = "iterator"
    /\ Advance(i, DataIterator_next(data, header, iters[i]))
    /\ UNCHANGED <<data, pc, remain, header, seeker, indices, result, cur, ret>>

Next ==
    \/ NewReader
    \/ ScanNames
    \/ SectionStart
    \/ ScanVertices
    \/ ScanFaces
    \/ ScanTextures
    \/ ScanMaterials
    \/ ScanBones
    \/ ScanMorphs
    \/ ScanDisplayGroups
    \/ ScanRigids
    \/ ScanJoints
    \/ \E i \in Callers, sec \in SectionSet : Accessor(i, sec)
    \/ \E i \in Callers, which \in StringNames : StringAccessor(i, which)
    \/ \E i \in Callers : IteratorNext(i)

Spec == Init /\ [][Next]_vars

\* Two callers use one Reader
InitCallers == Begin(SharedInputs, {1, 2})

SpecCallers == InitCallers /\ [][Next]_vars

--------------------------------------------------------------------------
(* The primitive reads of DataCursor, exercised on their own: a cursor at   *)
(* offset 0 of a short buffer, under each header profile, reads indices     *)
(* one after the other until a read runs past the end.                      *)

InitCursor ==
    /\ data \in PrimInputs
    /\ header \in {Header_new(HeaderBytes(p)) : p \in Profiles}
    /\ pc = "cursor"
    /\ remain = Start.remain
    /\ seeker = Start.seeker
    /\ indices = Start.indices
    /\ result = Start.result
    /\ iters = <<>>
    /\ panic = ""
    /\ cur = with_position(0)
    /\ ret = NoRet

\* The read `op` is called on cur and leaves it as c
Primitive(op, c) ==
    /\ ~Panicked(cur)
    /\ cur' = c
    /\ ret' = [op |-> op, pos |-> cur.pos]
    /\ UNCHANGED <<data, pc, remain, header, seeker, indices, result, iters, panic>>

ReadVertexIndex ==
    /\ pc = "cursor"
    /\ Primitive("vertex", read_vertex_index(data, header, cur))

ReadTextureIndex ==
    /\ pc = "cursor"
    /\ Primitive("texture", read_texture_index(data, header, cur))

ReadMaterialIndex ==
    /\ pc = "cursor"
    /\ Primitive("material", read_material_index(data, header, cur))

ReadBoneIndex ==
    /\ pc = "cursor"
    /\ Primitive("bone", read_bone_index(data, header, cur))

ReadMorphIndex ==
    /\ pc = "cursor"
    /\ Primitive("morph", read_morph_index(data, header, cur))

ReadRigidIndex ==
    /\ pc = "cursor"
    /\ Primitive("rigid", read_rigid_index(data, header, cur))

NextCursor ==
    \/ ReadVertexIndex
    \/ ReadTextureIndex
    \/ ReadMaterialIndex
    \/ ReadBoneIndex
    \/ ReadMorphIndex
    \/ ReadRigidIndex

SpecCursor == InitCursor /\ [][NextCursor]_vars

--------------------------------------------------------------------------
(* DataCursor::read_string, exercised on its own: a cursor at offset 0 of  *)
(* a buffer that holds a length prefix and some payload bytes, under each  *)
(* encoding.  The payload is as long as the prefix says, shorter, or       *)
(* longer.  (The Vec<u8> the payload is read into comes from the global    *)
(* allocator, which aligns it for u16; the code units are little-endian    *)
(* as on the targets the crate is built for.)                              *)

\* The longest payload, and the greatest length prefix
MaxPayload == 4

\* Payload bytes: ASCII, a UTF-8 continuation byte, the lead bytes of a
\* 2-byte and of a 4-byte UTF-8 sequence, and the high bytes of a high and
\* of a low UTF-16 surrogate
StringBytes == {65, 191, 195, 216, 220, 240}

Payloads == UNION {[1..m -> StringBytes] : m \in 0..MaxPayload}

StringInputs == {U32(n) \o b : n \in 0..MaxPayload, b \in Payloads}

InitString ==
    /\ data \in StringInputs
    /\ header \in {Header_new(HeaderBytes(Profile(e, 0, <<1, 1, 1, 1, 1, 1>>))) : e \in {0, 1}}
    /\ pc = "string"
    /\ remain = Start.remain
    /\ seeker = Start.seeker
    /\ indices = Start.indices
    /\ result = Start.result
    /\ iters = <<>>
    /\ panic = ""
    /\ cur = with_position(0)
    /\ ret = NoRet

\* read_string is called once on the cursor
ReadString ==
    /\ pc = "string"
    /\ ret = NoRet
    /\ Primitive("string", read_string(data, header, cur))

SpecString == InitString /\ [][ReadString]_vars

--------------------------------------------------------------------------
(* Reader::new runs to its return: it is one sequential call, so a step of *)
(* it that can be taken is taken.                                          *)

\* A step of Reader::new
Scanning ==
    \/ NewReader
    \/ ScanNames
    \/ SectionStart
    \/ ScanVertices
    \/ ScanFaces
    \/ ScanTextures
    \/ ScanMaterials
    \/ ScanBones
    \/ ScanMorphs
    \/ ScanDisplayGroups
    \/ ScanRigids
    \/ ScanJoints

\* Weak fairness of Scanning, WF_vars(Scanning), with ENABLED <<Scanning>>_vars
\* written out: a step of Reader::new can be taken as long as it has not
\* returned, the step is ScanStep, and ScanStep changes the state
\* (C23_Terminates states the latter).
ScanningFair ==
    \/ []<>(pc \in {"ready", "failed"})
    \/ []<><<Scanning>>_vars

SpecRun == Init /\ [][Next]_vars /\ ScanningFair

--------------------------------------------------------------------------
(* Properties                                                              *)

Min(a, b) == IF a <= b THEN a ELSE b

\* C1: after Reader::new returned Ok, no read of a section decoder or of a
\* string accessor runs past the end of the buffer (read_bin never panics
\* on a short read).
C1_NoShortRead == panic # "short read"

\* The complete files Reader::new accepts and that end exactly where the
\* scan of their last joint ends
AcceptedWhole ==
    {f \in {Full(p) : p \in Profiles} : Run(f).pc = "ready" /\ Run(f).seeker.pos = Len(f)}

IsProperPrefix(d, f) == Len(d) < Len(f) /\ d = SubSeq(f, 1, Len(d))

\* C2: Reader::new fails on every proper prefix of an accepted file that
\* ends at the end of its last joint, and the error is Io when the prefix
\* holds at least 17 bytes.
C2_TruncatedRejected ==
    (Returned(Mach) /\ \E f \in AcceptedWhole : IsProperPrefix(data, f))
        => /\ pc = "failed"
           /\ Len(data) >= 17 => result.kind = "Io"

\* The header rules the first 17 bytes of d break
HeaderFaults(d) ==
    {r \in {"magic", "version", "length", "encoding", "uv", "index"} :
        \/ r = "magic" /\ SubSeq(d, 1, 4) # <<80, 77, 88, 32>>
        \/ r = "version" /\ SubSeq(d, 5, 8) # <<0, 0, 0, 64>>
        \/ r = "length" /\ d[9] # 8
        \/ r = "encoding" /\ d[10] \notin {0, 1}
        \/ r = "uv" /\ d[11] > 4
        \/ r = "index" /\ \E i \in 12..17 : d[i] \notin {1, 2, 4}}

\* C3: on a buffer of at least 17 bytes Reader::new fails with InvalidHeader
\* or UnsupportedVersion exactly when a header rule is broken; a wrong
\* version alone gives UnsupportedVersion, any other rule broken alone gives
\* InvalidHeader.
C3_HeaderErrors ==
    (pc # "new" /\ Len(data) >= 17)
        => /\ result.kind \in {"InvalidHeader", "UnsupportedVersion"}
                <=> HeaderFaults(data) # {}
           /\ HeaderFaults(data) = {"version"} => result = UnsupportedVersion
           /\ (Cardinality(HeaderFaults(data)) = 1 /\ HeaderFaults(data) # {"version"})
                => result.kind = "InvalidHeader"

\* A bad index size, and nothing else, was rejected
C3_Witness ==
    /\ pc = "failed" /\ Len(data) >= 17
    /\ HeaderFaults(data) = {"index"}
    /\ result = invalid_header("index size")

\* C4: once the scan has read a tag byte outside its legal range, Reader::new
\* returns InvalidData naming the category of that tag, and has read no byte
\* after the tag.
C4_TagRejected ==
    (pc = "failed" /\ seeker.bad # <<>>)
        => /\ result = invalid_data(seeker.bad[2])
           /\ seeker.hi = seeker.bad[1] + 1

\* C5: when the scan reads the 4-byte face count, a count that is not a
\* multiple of 3 makes Reader::new fail with InvalidData("faces"); otherwise
\* the scan goes on exactly vertex_index_size * count bytes after the count.
C5_FaceCount ==
    [][(pc = "faces" /\ seeker.pos + 4 <= Len(data))
        => IF le_u32(data, seeker.pos) % 3 # 0
           THEN pc' = "failed" /\ result' = invalid_data("faces")
           ELSE /\ pc' = "textures"
                /\ result' = Running
                /\ seeker'.pos = seeker.pos + 4
                                 + header.vertex_index_size * le_u32(data, seeker.pos)]_vars

\* A face count that is no multiple of 3 was rejected, under 4-byte indices
C5_Witness ==
    /\ result = invalid_data("faces")
    /\ header.vertex_index_size = 4
    /\ le_u32(data, seeker.pos - 4) % 3 = 2

\* C6: after Reader::new returned Ok no decoder reaches unreachable!() or
\* assert!: every tag byte a decoder has dispatched on was checked by the
\* scan at the same offset under the same category, and the six index sizes
\* are 1, 2 or 4.
C6_TagsValidated ==
    pc = "ready"
        => /\ panic \notin {"unreachable", "assert"}
           /\ \A i \in Callers :
                iters[i].kind \in {"iterator", "panicked"}
                    => iters[i].data.disp \subseteq seeker.tags
           /\ {header.vertex_index_size, header.texture_index_size,
               header.material_index_size, header.bone_index_size,
               header.morph_index_size, header.rigid_index_size} \subseteq IndexSizes

\* A material morph was decoded to its end: its panel, its kind and the
\* operation of its entry were dispatched on
C6_Witness ==
    /\ pc = "ready"
    /\ iters[1].kind = "iterator" /\ iters[1].sec = "morphs"
    /\ iters[1].current = 1
    /\ {t[2] : t \in iters[1].data.disp}
            = {"morph panel", "morph type", "morph material op"}

\* C7: the iterator of every section accessor reports the record count
\* stored at the section's recorded offset, and next() yields exactly that
\* many records (none of the calls panics) before it returns None.
C7_LengthAndCount ==
    \A i \in Callers :
        /\ iters[i].kind = "iterator"
            => /\ DataIterator_len(iters[i]) = le_u32(data, indices[iters[i].sec])
               /\ Len(iters[i].out) = iters[i].current
               /\ iters[i].current <= iters[i].len
               /\ iters[i].ended => iters[i].current = iters[i].len
        /\ ~(iters[i].kind = "panicked" /\ iters[i].of \in SectionSet)

\* C8: two iterators of the same section of one Reader report the same
\* length and agree on every record both have yielded, whatever else the
\* two callers did before; iterated to the end they yielded the same records.
C8_Deterministic ==
    \A i, j \in Callers :
        (iters[i].kind = "iterator" /\ iters[j].kind = "iterator"
         /\ iters[i].sec = iters[j].sec)
            => /\ iters[i].len = iters[j].len
               /\ \A k \in 1..Min(iters[i].current, iters[j].current) :
                    iters[i].out[k] = iters[j].out[k]
               /\ (iters[i].ended /\ iters[j].ended) => iters[i].out = iters[j].out

\* Both callers iterated the same section of two records to the end
C8_Witness ==
    /\ iters[1].kind = "iterator" /\ iters[2].kind = "iterator"
    /\ iters[1].sec = iters[2].sec
    /\ iters[1].ended /\ iters[2].ended
    /\ Len(iters[1].out) = 2

\* The width the index reader `op` takes from the header
IndexWidth(op) ==
    CASE op = "vertex"   -> header.vertex_index_size
      [] op = "texture"  -> header.texture_index_size
      [] op = "material" -> header.material_index_size
      [] op = "bone"     -> header.bone_index_size
      [] op = "morph"    -> header.morph_index_size
      [] op = "rigid"    -> header.rigid_index_size

\* The w bytes of d at offset off as a two's-complement integer: the top
\* byte counts as negative from 128 on
TwosComplement(d, off, w) ==
    (IF w >= 2 THEN d[off + 1] ELSE 0)
    + (IF w = 4 THEN 256 * d[off + 2] + 65536 * d[off + 3] ELSE 0)
    + 256 ^ (w - 1) * (IF d[off + w] >= 128 THEN d[off + w] - 256 ELSE d[off + w])

\* C9: a texture, material, bone, morph or rigid index read of its header
\* width w, with w bytes left, consumes exactly w bytes and returns None
\* when their two's-complement value is negative, Some(value) otherwise.
C9_SignedIndex ==
    (ret.op \in {"texture", "material", "bone", "morph", "rigid"}
     /\ ret.pos + IndexWidth(ret.op) <= Len(data))
        => /\ ~Panicked(cur)
           /\ cur.pos = ret.pos + IndexWidth(ret.op)
           /\ cur.val = IF TwosComplement(data, ret.pos, IndexWidth(ret.op)) < 0
                        THEN None
                        ELSE Some(TwosComplement(data, ret.pos, IndexWidth(ret.op)))

\* A 2-byte bone index with the top bit set was read as None
C9_Witness ==
    /\ ret.op = "bone" /\ header.bone_index_size = 2
    /\ data[ret.pos + 2] >= 128
    /\ ~Panicked(cur) /\ cur.val = None

\* C10: a vertex index read of width 1 or 2 returns the unsigned value of
\* its bytes, whatever they are; of width 4 it returns the i32 of its four
\* bytes (cast to usize); each consumes exactly vertex_index_size bytes.
C10_VertexIndex ==
    (ret.op = "vertex" /\ ret.pos + header.vertex_index_size <= Len(data))
        => /\ ~Panicked(cur)
           /\ cur.pos = ret.pos + header.vertex_index_size
           /\ cur.val =
                CASE header.vertex_index_size = 1 -> <<data[ret.pos + 1], 0, 0, 0>>
                  [] header.vertex_index_size = 2 ->
                        <<data[ret.pos + 1] + 256 * data[ret.pos + 2], 0, 0, 0>>
                  [] header.vertex_index_size = 4 ->
                        <<data[ret.pos + 1] + 256 * data[ret.pos + 2],
                          data[ret.pos + 3] + 256 * data[ret.pos + 4],
                          IF data[ret.pos + 4] >= 128 THEN 65535 ELSE 0,
                          IF data[ret.pos + 4] >= 128 THEN 65535 ELSE 0>>

\* The byte 255 was read as the 1-byte vertex index 255
C10_Witness ==
    /\ ret.op = "vertex" /\ header.vertex_index_size = 1
    /\ data[ret.pos + 1] = 255
    /\ cur.val = <<255, 0, 0, 0>>

\* A Rust String: a sequence of Unicode scalar values
IsString(v) ==
    /\ DOMAIN v = 1..Len(v)
    /\ \A k \in 1..Len(v) : v[k] \in 0..1114111 /\ ~(v[k] >= 55296 /\ v[k] <= 57343)

\* C11: read_string does not panic on the payload's content: with a zero
\* length prefix it returns the empty string and consumes 4 bytes, and with
\* a prefix n > 0 and n bytes available it returns a String and consumes
\* 4 + n bytes, under both encodings.
C11_StringTotal ==
    (ret.op = "string" /\ Len(data) >= 4 /\ Len(data) >= 4 + le_u32(data, 0))
        => /\ cur.panic = ""
           /\ cur.pos = 4 + le_u32(data, 0)
           /\ IsString(cur.val)
           /\ le_u32(data, 0) = 0 => cur.val = <<>>

\* A UTF-16 payload of 3 bytes that begins with a lone low surrogate was
\* read: one replacement character, 7 bytes consumed
C11_Witness ==
    /\ ret.op = "string"
    /\ header.encoding = 0
    /\ data = <<3, 0, 0, 0, 65, 220, 65>>
    /\ cur.pos = 7
    /\ cur.val = <<Replacement>>

RECURSIVE Solo(_, _)
\* The iterator of section sec after k calls of next() by a caller that
\* iterates it alone, from a fresh accessor call on the Reader
Solo(sec, k) ==
    IF k = 0
    THEN DataIterator_new(sec, accessor_cursor(data, indices, sec),
                          accessor_cursor(data, indices, sec).val)
    ELSE DataIterator_next(data, header, Solo(sec, k - 1))

\* What caller i holds is what it would hold had it iterated alone
AsAlone(i) ==
    /\ iters[i].kind = "iterator"
        => /\ iters[i].out = Solo(iters[i].sec, iters[i].current).out
           /\ iters[i].data = Solo(iters[i].sec, iters[i].current).data
           /\ iters[i].len = Solo(iters[i].sec, iters[i].current).len
           /\ iters[i].ended => iters[i].current = iters[i].len
    /\ (iters[i].kind = "panicked" /\ iters[i].of \in SectionSet)
        => \E k \in 0..MaxRecords : Solo(iters[i].of, k).data = iters[i].data

\* C12: under every interleaving of the accessor and next() calls of two
\* callers on one Reader, each iterator has yielded the records it yields
\* when iterated alone, and no call changes the Reader's buffer, header or
\* offsets.
C12_Independent ==
    /\ [](\A i \in Callers : AsAlone(i))
    /\ [][pc = "ready" => (data' = data /\ header' = header /\ indices' = indices)]_vars

\* The two callers hold iterators of the same section, one has yielded two
\* records and the other, called in between, one
C12_Witness ==
    /\ iters[1].kind = "iterator" /\ iters[2].kind = "iterator"
    /\ iters[1].sec = iters[2].sec
    /\ iters[1].current = 2 /\ iters[2].current = 1
    /\ iters[1].out[1] # iters[1].out[2]

\* The first header field of d, in the order magic, version, header length,
\* encoding, extended-UV count, index widths, that is present in d and
\* breaks its rule while every field before it is present and passes
FirstFault(d) ==
    IF Len(d) < 4 THEN "none"
    ELSE IF SubSeq(d, 1, 4) # <<80, 77, 88, 32>> THEN "magic"
    ELSE IF Len(d) < 8 THEN "none"
    ELSE IF SubSeq(d, 5, 8) # <<0, 0, 0, 64>> THEN "version"
    ELSE IF Len(d) < 9 THEN "none"
    ELSE IF d[9] # 8 THEN "length"
    ELSE IF Len(d) < 10 THEN "none"
    ELSE IF d[10] \notin {0, 1} THEN "encoding"
    ELSE IF Len(d) < 11 THEN "none"
    ELSE IF d[11] > 4 THEN "uv"
    ELSE IF \E i \in 12..Min(17, Len(d)) : d[i] \notin {1, 2, 4} THEN "index"
    ELSE "none"

\* The number of bytes of d up to the end of its first faulty field
FaultEnd(d) ==
    CASE FirstFault(d) = "magic" -> 4
      [] FirstFault(d) = "version" -> 8
      [] FirstFault(d) = "length" -> 9
      [] FirstFault(d) = "encoding" -> 10
      [] FirstFault(d) = "uv" -> 11
      [] FirstFault(d) = "index" ->
            CHOOSE i \in 12..17 :
                /\ i <= Len(d) /\ d[i] \notin {1, 2, 4}
                /\ \A j \in 12..(i - 1) : d[j] \in {1, 2, 4}
      [] OTHER -> 0

\* The error Reader::new reports for a fault in field r
FaultError(r) ==
    CASE r = "magic" -> [kind |-> "InvalidHeader", msg |-> "magic number"]
      [] r = "version" -> [kind |-> "UnsupportedVersion", msg |-> ""]
      [] r = "length" -> [kind |-> "InvalidHeader", msg |-> "data length"]
      [] r = "encoding" -> [kind |-> "InvalidHeader", msg |-> "encoding"]
      [] r = "uv" -> [kind |-> "InvalidHeader", msg |-> "extended uv"]
      [] r = "index" -> [kind |-> "InvalidHeader", msg |-> "index size"]

\* The buffers that agree with d up to the end of its first faulty field
SameUpToFault(d) ==
    {e \in BadHeaders \cup BadHeaderCuts :
        Len(e) >= FaultEnd(d) /\ SubSeq(e, 1, FaultEnd(d)) = SubSeq(d, 1, FaultEnd(d))}

\* Reader::new has returned the error of the first faulty field of the
\* buffer, as it does on every buffer of `others`, and has scanned nothing
FirstFaultReported(others) ==
    /\ pc = "failed"
    /\ result = FaultError(FirstFault(data))
    /\ indices = NoIndices /\ seeker.hi <= 17
    /\ \A e \in others : Reader_new(e, Start).result = result

\* C13 as stated: once Reader::new has run on a buffer with a faulty header
\* field, it has returned the error of the first faulty field in the order
\* magic, version, header length, encoding, extended-UV count, index widths,
\* has scanned no section, and returns the same error on every buffer that
\* agrees with this one up to the end of that field.
C13_HeaderOrder ==
    (pc # "new" /\ FirstFault(data) # "none")
        => FirstFaultReported(SameUpToFault(data))

\* C13 amended: the same, for a faulty magic, version or header length on
\* any buffer, and for a faulty encoding, extended-UV count or index width on
\* buffers that hold the whole 8-byte block after the header length (the
\* eight bytes are read at once, before the first of them is checked).
C13_HeaderOrderWhole ==
    (pc # "new" /\ FirstFault(data) # "none"
     /\ (FirstFault(data) \in {"magic", "version", "length"} \/ Len(data) >= 17))
        => FirstFaultReported({e \in SameUpToFault(data) :
                FirstFault(data) \in {"magic", "version", "length"} \/ Len(e) >= 17})

\* A buffer with a wrong magic and a wrong version was rejected for its
\* magic
C13_Witness ==
    /\ pc = "failed" /\ Len(data) >= 17
    /\ SubSeq(data, 1, 4) # <<80, 77, 88, 32>>
    /\ SubSeq(data, 5, 8) # <<0, 0, 0, 64>>
    /\ result = invalid_header("magic number")

RECURSIVE ScanAfter(_, _)
\* The scanner's cursor after the count and the first k records of section
\* sec, scanned from the offset recorded for the section
ScanAfter(sec, k) ==
    IF k = 0 THEN Seeker_read_u32(data, Seeker_new(indices[sec]))
    ELSE scan_record(data, header, ScanAfter(sec, k - 1), sec)

\* The flag word of the k-th bone, at the offset where the scanner reads it
BoneFlagsAt(k) ==
    le_u16(data, seek_bin(data, 12 + header.bone_index_size + 4,
                 seek_string(data, seek_string(data, ScanAfter("bones", k - 1)))).pos)

\* C14: after k bones the bone decoder stands where the scanner stood after
\* k bones (after the last one, at the offset recorded for the morphs), it
\* does not run off the buffer, and the k-th bone has an additive transform
\* exactly when the scanner skipped the additive-transform bytes of the k-th
\* bone (flag bits 0x0100 or 0x0200).
C14_BoneBytes ==
    \A i \in Callers :
        /\ (iters[i].kind = "iterator" /\ iters[i].sec = "bones")
            => /\ iters[i].data.pos = ScanAfter("bones", iters[i].current).pos
               /\ iters[i].current = iters[i].len => iters[i].data.pos = indices.morphs
               /\ \A k \in 1..iters[i].current :
                    (iters[i].out[k].addition # None)
                        <=> (Bit(BoneFlagsAt(k), 256) \/ Bit(BoneFlagsAt(k), 512))
        /\ ~(iters[i].kind = "panicked" /\ iters[i].of = "bones")

\* Where the scanner stood after the count and k records of section sec:
\* the faces are skipped as one block of vertex indices
ScanPos(sec, k) ==
    IF sec = "faces" THEN indices.faces + 4 + header.vertex_index_size * k
    ELSE ScanAfter(sec, k).pos

\* The offset recorded for the section after sec; after the joints, the
\* scanner's final position
SectionEnd(sec) ==
    IF Following(sec) = "ready" THEN seeker.pos ELSE indices[Following(sec)]

\* C15: on a buffer Reader::new accepted and that reaches the scanner's
\* final position, the decoder of every section but the bones stands after
\* k records where the scanner stood after k records, and after the last
\* record at the offset recorded for the following section (after the last
\* joint, at the scanner's final position); it does not run off the buffer.
C15_SameBytes ==
    (pc = "ready" /\ Len(data) >= seeker.pos)
        => \A i \in Callers :
            /\ (iters[i].kind = "iterator" /\ iters[i].sec # "bones")
                => /\ iters[i].data.pos = ScanPos(iters[i].sec, iters[i].current)
                   /\ iters[i].current = iters[i].len
                        => iters[i].data.pos = SectionEnd(iters[i].sec)
            /\ ~(iters[i].kind = "panicked" /\ iters[i].of \in SectionSet \ {"bones"})

\* The two materials of a file were decoded under 4-byte texture indices,
\* and the decoder stands at the offset recorded for the bones
C15_Witness ==
    /\ pc = "ready" /\ Len(data) >= seeker.pos
    /\ iters[1].kind = "iterator" /\ iters[1].sec = "materials"
    /\ iters[1].current = 2 /\ iters[1].len = 2
    /\ header.texture_index_size = 4
    /\ iters[1].data.pos = indices.bones

\* The cursor at the flag word of a bone that begins at offset start
BoneFlagsCursor(start) ==
    read_i32(data, read_bone_index(data, header, read_vec3(data,
    read_string(data, header, read_string(data, header, with_position(start))))))

\* The offsets of the trailing substructures of a bone whose flag word f
\* ends at offset o, laid out in the order connection target, additive
\* transform, fixed pole, local pole, external parent, IK block, where the
\* additive transform is present when `additive` holds
BoneLayout(f, o, additive) ==
    [connected_to |-> o,
     addition |-> o + (IF Bit(f, 1) THEN header.bone_index_size ELSE 12),
     fixed_pole |-> o + (IF Bit(f, 1) THEN header.bone_index_size ELSE 12)
                      + (IF additive THEN header.bone_index_size + 4 ELSE 0),
     local_pole |-> o + (IF Bit(f, 1) THEN header.bone_index_size ELSE 12)
                      + (IF additive THEN header.bone_index_size + 4 ELSE 0)
                      + (IF Bit(f, 1024) THEN 12 ELSE 0),
     external_parent |-> o + (IF Bit(f, 1) THEN header.bone_index_size ELSE 12)
                      + (IF additive THEN header.bone_index_size + 4 ELSE 0)
                      + (IF Bit(f, 1024) THEN 12 ELSE 0)
                      + (IF Bit(f, 2048) THEN 24 ELSE 0),
     ik |-> o + (IF Bit(f, 1) THEN header.bone_index_size ELSE 12)
                      + (IF additive THEN header.bone_index_size + 4 ELSE 0)
                      + (IF Bit(f, 1024) THEN 12 ELSE 0)
                      + (IF Bit(f, 2048) THEN 24 ELSE 0)
                      + (IF Bit(f, 8192) THEN 4 ELSE 0)]

RECURSIVE LinksEnd(_, _)
\* The end of n IK links that begin at offset o
LinksEnd(o, n) ==
    IF n = 0 THEN o
    ELSE LinksEnd(o + header.bone_index_size + 1
                    + (IF data[o + header.bone_index_size + 1] = 1 THEN 24 ELSE 0),
                  n - 1)

\* The end of a bone with flag word f whose IK block, if it has one, begins
\* at offset o
IkEnd(f, o) ==
    IF Bit(f, 32)
    THEN LinksEnd(o + header.bone_index_size + 12,
                  le_u32(data, o + header.bone_index_size + 8))
    ELSE o

\* The value read at offset o
At(o) == with_position(o)

\* The bone b decoded from the flag word in cursor c holds, in each trailing
\* substructure, the bytes at the offset the layout gives it
DecodedInOrder(b, c, lay) ==
    /\ b.connected_to.kind = "Offset"
        => b.connected_to.offset = read_vec3(data, At(lay.connected_to)).val
    /\ b.connected_to.kind = "Bone"
        => b.connected_to.bone = read_bone_index(data, header, At(lay.connected_to)).val
    /\ b.addition # None
        => /\ b.addition[1].bone = read_bone_index(data, header, At(lay.addition)).val
           /\ b.addition[1].ratio = le_f32(data, lay.addition + header.bone_index_size)
    /\ b.fixed_pole # None
        => b.fixed_pole = Some(read_vec3(data, At(lay.fixed_pole)).val)
    /\ b.local_pole # None
        => /\ b.local_pole[1].x = read_vec3(data, At(lay.local_pole)).val
           /\ b.local_pole[1].z = read_vec3(data, At(lay.local_pole + 12)).val
    /\ b.external_parent # None
        => b.external_parent = Some(as_usize(le_i32(data, lay.external_parent)))
    /\ b.ik # None
        => /\ b.ik[1].target_bone = read_bone_index(data, header, At(lay.ik)).val
           /\ b.ik[1].loop_count = le_u32(data, lay.ik + header.bone_index_size)
           /\ Len(b.ik[1].links) = le_u32(data, lay.ik + header.bone_index_size + 8)
    /\ (b.fixed_pole # None) = Bit(c.val, 1024)
    /\ (b.local_pole # None) = Bit(c.val, 2048)
    /\ (b.external_parent # None) = Bit(c.val, 8192)
    /\ (b.ik # None) = Bit(c.val, 32)

\* C16: the trailing substructures of a bone lie in the order connection
\* target, additive transform, fixed pole, local pole, external parent, IK
\* block, for the decoder (each decoded substructure holds the bytes at the
\* offset this order gives it, from where the decoder read the flag word)
\* and for the scanner (the k-th bone ends where the IK block laid out after
\* the others ends, its link count read at that place); where the two agree
\* on the presence of the additive transform of every bone, the decoder
\* does not run off the buffer.
C16_BoneOrder ==
    (pc = "ready" /\ indices.morphs > indices.bones + 4)
        => /\ \A i \in Callers :
                (iters[i].kind = "panicked" /\ iters[i].of = "bones")
                    => \E k \in 1..le_u32(data, indices.bones) :
                        (Bit(BoneFlagsAt(k), 128) \/ Bit(BoneFlagsAt(k), 256))
                            # (Bit(BoneFlagsAt(k), 256) \/ Bit(BoneFlagsAt(k), 512))
           /\ \A i \in Callers :
                (iters[i].kind = "iterator" /\ iters[i].sec = "bones")
                    => \A k \in 1..iters[i].current :
                        DecodedInOrder(iters[i].out[k],
                            read_u16(data, BoneFlagsCursor(Solo("bones", k - 1).data.pos)),
                            BoneLayout(
                                read_u16(data, BoneFlagsCursor(Solo("bones", k - 1).data.pos)).val,
                                read_u16(data, BoneFlagsCursor(Solo("bones", k - 1).data.pos)).pos,
                                iters[i].out[k].addition # None))
           /\ \A k \in 1..le_u32(data, indices.bones) :
                ScanAfter("bones", k).pos =
                    IkEnd(BoneFlagsAt(k),
                          BoneLayout(BoneFlagsAt(k),
                                     BoneFlagsCursor(ScanAfter("bones", k - 1).pos).pos + 2,
                                     Bit(BoneFlagsAt(k), 256) \/ Bit(BoneFlagsAt(k), 512)).ik)

\* A bone with every flag bit set and two IK links with angle limits was
\* decoded
C16_Witness ==
    /\ pc = "ready"
    /\ iters[1].kind = "iterator" /\ iters[1].sec = "bones" /\ iters[1].current = 1
    /\ BoneFlagsAt(1) = 16383
    /\ Len(iters[1].out[1].ik[1].links) = 2
    /\ iters[1].out[1].ik[1].links[1].limit # None

\* The scanner's cursor at the kind byte of a morph that begins where
\* cursor s stands: after the two names and the panel byte
MorphKindCursor(s) == Seeker_read_u8(data, seek_string(data, seek_string(data, s)))

\* The scan is about to skip a material morph (kind 8) whose kind and entry
\* count lie in the buffer, and does not reject it
ScansMaterialMorph ==
    /\ pc = "morphs" /\ remain > 0
    /\ ~Failed(MorphKindCursor(seeker))
    /\ MorphKindCursor(seeker).pos + 5 <= Len(data)
    /\ data[MorphKindCursor(seeker).pos + 1] = 8
    /\ pc' # "failed"

\* C17 as stated: the scan of a material morph advances, after the entry
\* count, by the material index, the operation byte and a block of 144 bytes
\* for each entry.
C17_MaterialBlock144 ==
    [][ScansMaterialMorph
        => seeker'.pos = MorphKindCursor(seeker).pos + 5
                + le_u32(data, MorphKindCursor(seeker).pos + 1)
                    * (header.material_index_size + 1 + 144)]_vars

\* C17 amended: the block is 112 bytes (16 + 12 + 4 + 12 + 16 + 4 + 16 + 16
\* + 16), whatever the index sizes and the entry count.
C17_MaterialBlock112 ==
    [][ScansMaterialMorph
        => seeker'.pos = MorphKindCursor(seeker).pos + 5
                + le_u32(data, MorphKindCursor(seeker).pos + 1)
                    * (header.material_index_size + 1 + 112)]_vars

\* A file whose morph is a material morph of two entries was accepted, under
\* 4-byte material indices
C17_Witness ==
    /\ pc = "ready"
    /\ header.material_index_size = 4
    /\ le_u32(data, indices.morphs) = 1
    /\ data[MorphKindCursor(ScanAfter("morphs", 0)).pos + 1] = 8
    /\ le_u32(data, MorphKindCursor(ScanAfter("morphs", 0)).pos + 1) = 2
    /\ indices.display_groups = MorphKindCursor(ScanAfter("morphs", 0)).pos + 5 + 2 * 117

\* The offset of the kind byte of the k-th morph, from where the decoder
\* begins the morph
MorphKindOffset(k) == MorphKindCursor(Seeker_new(Solo("morphs", k - 1).data.pos)).pos

\* The names of the fields of one entry of a morph of kind ty
EntryFields(ty) ==
    CASE ty = 0 -> {"morph", "ratio"}
      [] ty = 1 -> {"vertex", "offset"}
      [] ty = 2 -> {"bone", "offset", "rotation"}
      [] ty \in 3..7 -> {"vertex", "offset"}
      [] ty = 8 -> {"material", "op", "diffuse", "specular", "specular_power", "ambient",
                    "edge_color", "edge_size", "texture", "sphere", "toon"}

\* The payload m decoded from kind byte ty and entry count n, the entries
\* beginning at offset o
MorphOfKind(m, ty, n, o) ==
    /\ ty \in 0..8
    /\ m.kind = CASE ty = 0 -> "Group" [] ty = 1 -> "Vertex" [] ty = 2 -> "Bone"
                  [] ty = 3 -> "Uv" [] ty \in 4..7 -> "ExtendedUv" [] ty = 8 -> "Material"
    /\ DOMAIN m = IF ty \in 4..7 THEN {"kind", "list", "channel"} ELSE {"kind", "list"}
    /\ ty \in 4..7 => (m.channel = ty - 4 /\ m.channel \in 0..3)
    /\ Len(m.list) = n
    /\ \A j \in 1..n : DOMAIN m.list[j] = EntryFields(ty)
    /\ ty = 0 =>
        \A j \in 1..n :
            /\ m.list[j].morph =
                read_morph_index(data, header, At(o + (j - 1) * (header.morph_index_size + 4))).val
            /\ m.list[j].ratio = le_f32(data, o + (j - 1) * (header.morph_index_size + 4)
                                              + header.morph_index_size)

\* C18: every morph the decoder has yielded holds the variant of its kind
\* byte (0 Group of morph index and ratio, 1 Vertex, 2 Bone, 3 Uv, 4..7
\* ExtendedUv of channel kind - 4, 8 Material) with as many entries as the
\* count after the kind byte declares.
C18_MorphKinds ==
    \A i \in Callers :
        (pc = "ready" /\ iters[i].kind = "iterator" /\ iters[i].sec = "morphs")
            => \A k \in 1..iters[i].current :
                MorphOfKind(iters[i].out[k].kind,
                            data[MorphKindOffset(k) + 1],
                            le_u32(data, MorphKindOffset(k) + 1),
                            MorphKindOffset(k) + 5)

\* An extended-UV morph of kind 7 with two entries was decoded
C18_Witness ==
    /\ pc = "ready"
    /\ iters[1].kind = "iterator" /\ iters[1].sec = "morphs" /\ iters[1].current = 1
    /\ data[MorphKindOffset(1) + 1] = 7
    /\ iters[1].out[1].kind.kind = "ExtendedUv"
    /\ iters[1].out[1].kind.channel = 3
    /\ Len(iters[1].out[1].kind.list) = 2

\* The bone index at offset o
BoneIndexAt(o) == read_bone_index(data, header, At(o)).val

\* The weight w decoded from the kind byte at offset o holds the fields of
\* its variant, each from its place after the kind byte: nb bone indices,
\* then the weights, then for SDEF the three 3-vectors
WeightOfKind(w, o) ==
    LET ty == data[o + 1]
        b  == header.bone_index_size
    IN /\ ty \in 0..3
       /\ ty = 0 =>
            /\ w.kind = "Bdef1" /\ DOMAIN w = {"kind", "bone"}
            /\ w.bone = BoneIndexAt(o + 1)
       /\ ty = 1 =>
            /\ w.kind = "Bdef2" /\ DOMAIN w = {"kind", "bones", "weight"}
            /\ w.bones = [j \in 1..2 |-> BoneIndexAt(o + 1 + (j - 1) * b)]
            /\ w.weight = le_f32(data, o + 1 + 2 * b)
       /\ ty = 2 =>
            /\ w.kind = "Bdef4" /\ DOMAIN w = {"kind", "bones", "weights"}
            /\ w.bones = [j \in 1..4 |-> BoneIndexAt(o + 1 + (j - 1) * b)]
            /\ w.weights = [j \in 1..4 |-> le_f32(data, o + 1 + 4 * b + 4 * (j - 1))]
       /\ ty = 3 =>
            /\ w.kind = "Sdef" /\ DOMAIN w = {"kind", "bones", "weight", "c", "r0", "r1"}
            /\ w.bones = [j \in 1..2 |-> BoneIndexAt(o + 1 + (j - 1) * b)]
            /\ w.weight = le_f32(data, o + 1 + 2 * b)
            /\ w.c = read_vec3(data, At(o + 1 + 2 * b + 4)).val
            /\ w.r0 = read_vec3(data, At(o + 1 + 2 * b + 16)).val
            /\ w.r1 = read_vec3(data, At(o + 1 + 2 * b + 28)).val

\* The vertex v decoded from offset o: the base UV, header.extended_uv
\* extended-UV vectors, then the weight kind byte and the weight
VertexAt(v, o) ==
    /\ v.uv = read_vec2(data, At(o + 24)).val
    /\ header.extended_uv \in 0..4
    /\ v.extended_uv = [j \in 1..header.extended_uv |->
                            read_vec4(data, At(o + 32 + 16 * (j - 1))).val]
    /\ WeightOfKind(v.weight, o + 32 + 16 * header.extended_uv)

\* C19: every vertex the decoder has yielded holds the weight variant of its
\* kind byte (0 BDEF1 of 1 bone index, 1 BDEF2 of 2 bone indices then 1
\* weight, 2 BDEF4 of 4 bone indices then 4 weights, 3 SDEF of 2 bone
\* indices, 1 weight, then three 3-vectors) and exactly header.extended_uv
\* extended-UV vectors, read between the base UV and the weight kind byte.
C19_VertexWeights ==
    \A i \in Callers :
        (pc = "ready" /\ iters[i].kind = "iterator" /\ iters[i].sec = "vertices")
            => \A k \in 1..iters[i].current :
                VertexAt(iters[i].out[k], Solo("vertices", k - 1).data.pos)

\* A BDEF4 vertex with four extended-UV vectors was decoded
C19_Witness ==
    /\ pc = "ready"
    /\ header.extended_uv = 4
    /\ iters[1].kind = "iterator" /\ iters[1].sec = "vertices" /\ iters[1].current = 1
    /\ iters[1].out[1].weight.kind = "Bdef4"
    /\ Len(iters[1].out[1].extended_uv) = 4
    /\ iters[1].out[1].weight.bones[2] # iters[1].out[1].weight.bones[3]

\* The offset of the toon kind byte of a material that begins at offset
\* start: after the two names, the colours, the flags, the edge, the two
\* texture indices and the sphere mode
ToonOffset(start) ==
    seek_string(data, seek_string(data, Seeker_new(start))).pos
        + 16 + 12 + 4 + 12 + 1 + 16 + 4 + 2 * header.texture_index_size + 1

\* The bytes the toon payload of kind ty occupies
ToonSize(ty) == IF ty = 0 THEN header.texture_index_size ELSE 1

\* The end of a material whose toon kind byte is at offset o: the memo and
\* the index count follow the toon payload
MaterialEnd(o) == seek_string(data, Seeker_new(o + 1 + ToonSize(data[o + 1]))).pos + 4

\* The unsigned little-endian integer of w bytes at offset o
UIntAt(o, w) ==
    CASE w = 1 -> Byte(data, o) [] w = 2 -> le_u16(data, o) [] w = 4 -> le_u32(data, o)

\* The toon t decoded from the kind byte at offset o
ToonOfKind(t, o) ==
    /\ data[o + 1] \in 0..1
    /\ data[o + 1] = 0 =>
        /\ t.kind = "Texture" /\ DOMAIN t = {"kind", "index"}
        /\ t.index = IF Byte(data, o + header.texture_index_size) >= 128 THEN None
                     ELSE Some(UIntAt(o + 1, header.texture_index_size))
    /\ data[o + 1] = 1 =>
        /\ t.kind = "Shared" /\ DOMAIN t = {"kind", "toon"}
        /\ t.toon = Byte(data, o + 1)

\* C20: every material the decoder has yielded holds, for toon kind 0, the
\* texture reference read with the texture index width (absent when
\* negative) and, for toon kind 1, the next byte unchanged; the decoder
\* reads the memo, and ends the material, where a toon payload of
\* texture_index_size bytes (kind 0) or 1 byte (kind 1) ends, and so does
\* the scanner for every material of the file.
C20_Toon ==
    pc = "ready" =>
        /\ \A i \in Callers :
            (iters[i].kind = "iterator" /\ iters[i].sec = "materials")
                => \A k \in 1..iters[i].current :
                    /\ ToonOfKind(iters[i].out[k].toon,
                                  ToonOffset(Solo("materials", k - 1).data.pos))
                    /\ Solo("materials", k).data.pos =
                            MaterialEnd(ToonOffset(Solo("materials", k - 1).data.pos))
                    /\ iters[i].out[k].memo =
                            read_string(data, header,
                                At(ToonOffset(Solo("materials", k - 1).data.pos) + 1
                                   + ToonSize(data[ToonOffset(Solo("materials", k - 1).data.pos) + 1]))).val
        /\ \A k \in 1..le_u32(data, indices.materials) :
                ScanAfter("materials", k).pos =
                    MaterialEnd(ToonOffset(ScanAfter("materials", k - 1).pos))

\* A material with the shared toon 255 was decoded, its memo read from the
\* byte after it
C20_Witness ==
    /\ pc = "ready"
    /\ iters[1].kind = "iterator" /\ iters[1].sec = "materials" /\ iters[1].current = 1
    /\ iters[1].out[1].toon = [kind |-> "Shared", toon |-> 255]
    /\ iters[1].out[1].memo # <<>>

\* The 13 offsets of Indices in the order of their fields
OffsetNames == <<"name", "name_en", "comment", "comment_en">> \o Sections

\* C21: when Reader::new has returned Ok, the 13 recorded offsets increase
\* strictly in the order name, name_en, comment, comment_en, vertices,
\* faces, textures, materials, bones, morphs, display_groups, rigids,
\* joints, the name offset is 17, and at least 4 bytes of the buffer follow
\* each offset.
C21_Offsets ==
    pc = "ready" =>
        /\ indices.name = 17
        /\ \A i \in 1..(Len(OffsetNames) - 1) :
                indices[OffsetNames[i]] < indices[OffsetNames[i + 1]]
        /\ \A i \in 1..Len(OffsetNames) : indices[OffsetNames[i]] + 4 <= Len(data)

\* Reader::new accepted a file with non-empty metadata strings whose joint
\* count is its last four bytes
C21_Witness ==
    /\ pc = "ready"
    /\ indices.name_en > indices.name + 4
    /\ indices.joints + 4 = Len(data)
    /\ Len(OffsetNames) = 13

\* The record count declared at the offset recorded for section sec
Declared(sec) == le_u32(data, indices[sec])

\* C22: len() of a section iterator returns the declared record count of
\* its section whatever the number k of next() calls made on it, also after
\* next() has returned None; the iterator has then yielded min(k, count)
\* records, so that count - min(k, count) are still to be yielded.
C22_LenConstant ==
    \A i \in Callers :
        (pc = "ready" /\ iters[i].kind = "iterator")
            => /\ DataIterator_len(iters[i]) = Declared(iters[i].sec)
               /\ iters[i].current <= Declared(iters[i].sec)
               /\ Len(iters[i].out) = iters[i].current
               /\ iters[i].ended => iters[i].current = Declared(iters[i].sec)
               /\ \A k \in 0..(MaxRecords + 2) :
                    ~Panicked(Solo(iters[i].sec, k).data)
                        => /\ DataIterator_len(Solo(iters[i].sec, k)) = Declared(iters[i].sec)
                           /\ Solo(iters[i].sec, k).current = Min(k, Declared(iters[i].sec))
                           /\ Len(Solo(iters[i].sec, k).out) = Min(k, Declared(iters[i].sec))

\* An iterator over a section of two records has yielded both and next()
\* has returned None
C22_Witness ==
    /\ pc = "ready"
    /\ iters[1].kind = "iterator"
    /\ iters[1].ended
    /\ iters[1].current = 2
    /\ DataIterator_len(iters[1]) = 2

\* Reader::new has returned Ok or an error
HasReturned ==
    \/ pc = "ready" /\ result = Ok
    \/ pc = "failed" /\ result.kind \in {"Io", "InvalidHeader", "InvalidData", "UnsupportedVersion"}

\* Reader::new is inside Indices::new
InIndices == pc = "name" \/ pc \in SectionSet

\* C23: Reader::new returns, with Ok or an error, on every buffer; the count
\* of each scanner loop is the 32-bit count read at the section's offset
\* and each iteration takes one off it; the scanner's cursor never moves
\* backward; every step of Reader::new changes its state; and a step of
\* Indices::new that begins with the cursor at or past the end of the
\* buffer returns the Io error.
C23_Terminates ==
    /\ <>HasReturned
    /\ [](~Returned(Mach) => ScanStep(data, Mach) # Mach)
    /\ [][seeker'.pos >= seeker.pos]_vars
    /\ [][(pc \in SectionSet \ {"faces"} /\ remain = -1 /\ pc' = pc)
            => remain' = le_u32(data, seeker.pos)]_vars
    /\ [][(pc \in SectionSet /\ remain > 0 /\ pc' # "failed")
            => IF pc' = pc THEN remain' = remain - 1 ELSE remain = 1]_vars
    /\ [][(InIndices /\ seeker.pos >= Len(data))
            => (pc' = "failed" /\ result' = IoError)]_vars

\* A scanner loop with iterations left was ended by the Io error at the end
\* of the buffer
C23_Witness ==
    /\ pc = "failed"
    /\ result = IoError
    /\ remain >= 1
    /\ seeker.pos >= Len(data)

==========================================================================
